---- MODULE Spec2Model ----
(***************************************************************************)
(* Route-link graph construction, the permanent route cache, GPS-to-link   *)
(* matching, analysis-window expansion, speed-band history assembly and    *)
(* the coasting recommendation of the bus coasting advisory backend.       *)
(*                                                                         *)
(* Geometry.  Every link of the modelled catalogs lies on the parallel     *)
(* lat = 0, and longitudes are written in metres of arc along it.  On that *)
(* parallel the haversine distance of two points is exactly the absolute   *)
(* difference of their longitudes, a Shapely segment is an interval, the   *)
(* buffered route is an interval widened by the buffer, and projecting a   *)
(* point onto the route is clamping.  Midpoints are kept doubled (Mid2) so *)
(* that all arithmetic stays in the integers.                              *)
(*                                                                         *)
(* A coordinate field of a link record is a tagged value: a number, or one *)
(* of the three ways a JSON record can fail to carry one.                  *)
(***************************************************************************)
EXTENDS Integers, Sequences, FiniteSets, TLC

VARIABLES all_links,    \* route_service._all_links: the loaded link catalog
          route_cache,  \* cache.route_cache._cache: key string -> route graph
          call          \* the last operation performed, its inputs and its result

vars == <<all_links, route_cache, call>>

----------------------------------------------------------------------------
(* Bounds *)

NumLinks == 3          \* records in the link catalog
MaxK == 2              \* largest lookahead count tried besides NUM_FUTURE_LINKS

(* Program constants *)

ROUTE_BUFFER_METERS == 5
NUM_FUTURE_LINKS == 3

----------------------------------------------------------------------------
(* Small helpers *)

Abs(x) == IF x < 0 THEN -x ELSE x
Min2(a, b) == IF a <= b THEN a ELSE b
Max2(a, b) == IF a >= b THEN a ELSE b
Range(s) == {s[i] : i \in 1..Len(s)}
Contains(s, x) == \E i \in 1..Len(s) : s[i] = x

\* the value of call before any operation has run
NoCall == [op |-> "none"]

RECURSIVE FilterSeq(_, _)
\* the elements of s whose index satisfies keep, in order
FilterSeq(s, keep) ==
    IF s = <<>> THEN <<>>
    ELSE LET rest == FilterSeq(Tail(s), [i \in 1..(Len(s) - 1) |-> keep[i + 1]])
         IN IF keep[1] THEN <<Head(s)>> \o rest ELSE rest

----------------------------------------------------------------------------
(* Coordinate values of a JSON link record *)

Num(v) == [k |-> "num", v |-> v]
Absent == [k |-> "absent", v |-> 0]     \* the key is missing from the record
Null == [k |-> "null", v |-> 0]         \* JSON null, loaded as None
Text == [k |-> "text", v |-> 0]         \* a string that is not a number

\* float(link[field]): "ok", or the exception Python raises
FloatErr(c) ==
    CASE c.k = "num" -> "ok"
      [] c.k = "absent" -> "KeyError"
      [] c.k = "null" -> "TypeError"
      [] OTHER -> "ValueError"

\* the first exception raised while reading the four coordinates in source order
FirstErr(errs) ==
    IF \A i \in 1..Len(errs) : errs[i] = "ok" THEN "ok"
    ELSE errs[CHOOSE i \in 1..Len(errs) :
                 /\ errs[i] # "ok"
                 /\ \A j \in 1..(i - 1) : errs[j] = "ok"]

\* an exception that the `except (ValueError, KeyError)` clauses catch
Caught(err) == err \in {"ValueError", "KeyError"}

\* create_link_linestring: "ok" (a LineString), "none" (returns None) or "raise"
LinestringErr(link) ==
    FirstErr(<<FloatErr(link.StartLat), FloatErr(link.StartLon),
               FloatErr(link.EndLat), FloatErr(link.EndLon)>>)

create_link_linestring(link) ==
    LET err == LinestringErr(link)
    IN IF err = "ok" THEN "ok" ELSE IF Caught(err) THEN "none" ELSE "raise"

\* great-circle distance in metres of two points of the parallel lat = 0
\* (lat1 = lat2 = 0 makes the haversine formula R * |delta_lon|)
haversine_distance(lat1, lon1, lat2, lon2) == Abs(lon1 - lon2)

\* a variant that leaves out a point exactly buffer_meters away
points_match_Strict(lat1, lon1, lat2, lon2, buffer_meters) ==
    haversine_distance(lat1, lon1, lat2, lon2) < buffer_meters

points_match(lat1, lon1, lat2, lon2, buffer_meters) ==
    haversine_distance(lat1, lon1, lat2, lon2) <= buffer_meters

----------------------------------------------------------------------------
(* The link catalog (links.json) *)

IdOf(i) == "L" \o ToString(i)

Shape(s, e) == [StartLat |-> Num(0), StartLon |-> Num(s),
                EndLat |-> Num(0), EndLon |-> Num(e)]

\* the geometries a catalog record may carry: a chain 0->10->20, the reverse
\* carriageway 10->0, a link starting exactly ROUTE_BUFFER_METERS after 10,
\* and one record for each way a coordinate can be unusable
Shapes ==
    { Shape(0, 10), Shape(10, 20), Shape(10, 0), Shape(15, 25),
      [Shape(0, 10) EXCEPT !.StartLat = Null],
      [Shape(10, 20) EXCEPT !.EndLon = Absent],
      [Shape(0, 10) EXCEPT !.StartLon = Text] }

Catalogs ==
    { [i \in 1..NumLinks |-> [LinkID |-> IdOf(i)] @@ f[i]] :
        f \in [1..NumLinks -> Shapes] }

----------------------------------------------------------------------------
(* The route path fetched from the bus routes / bus stops feeds *)

Stop(lon) == [Latitude |-> Num(0), Longitude |-> Num(lon)]
NoCoordStop == [Latitude |-> [k |-> "nan", v |-> 0], Longitude |-> [k |-> "nan", v |-> 0]]

\* the merged stop rows of one (service, direction), sorted by StopSequence
Upstreams ==
    { <<>>,                          \* the service is unknown upstream
      <<Stop(0), Stop(20)>>,
      <<Stop(20), Stop(0)>>,
      <<Stop(0), Stop(5)>>,
      <<Stop(0), NoCoordStop>> }     \* a stop code without coordinates

get_route_linestring_from_stops(stops) ==
    LET keep == [i \in 1..Len(stops) |->
                    stops[i].Latitude.k = "num" /\ stops[i].Longitude.k = "num"]
        rows == FilterSeq(stops, keep)
        coords == [i \in 1..Len(rows) |-> rows[i].Longitude.v]
    IN IF Len(coords) < 2 THEN [kind |-> "none", coords |-> <<>>]
       ELSE [kind |-> "line", coords |-> coords]

----------------------------------------------------------------------------
(* Shapely operations on the parallel lat = 0 *)

RouteLo(coords) == CHOOSE m \in Range(coords) : \A x \in Range(coords) : m <= x
RouteHi(coords) == CHOOSE m \in Range(coords) : \A x \in Range(coords) : m >= x

\* link_line.intersects(buffered_route)
Intersects(link, coords, buffer_meters) ==
    /\ Max2(link.StartLon.v, link.EndLon.v) >= RouteLo(coords) - buffer_meters
    /\ Min2(link.StartLon.v, link.EndLon.v) <= RouteHi(coords) + buffer_meters

\* twice the longitude of link_line.interpolate(0.5, normalized=True)
Mid2(link) == link.StartLon.v + link.EndLon.v

Clamp(x, lo, hi) == IF x < lo THEN lo ELSE IF x > hi THEN hi ELSE x

RECURSIVE ProjectFrom(_, _, _, _, _, _)
\* route_linestring.project(p): scan the segments from index i on; the first
\* segment at the smallest distance wins.  All lengths are doubled.
ProjectFrom(coords, i, p2, offset2, bestDist2, bestAlong2) ==
    IF i >= Len(coords) THEN bestAlong2
    ELSE LET a2 == 2 * coords[i]
             b2 == 2 * coords[i + 1]
             q2 == Clamp(p2, Min2(a2, b2), Max2(a2, b2))
             d2 == Abs(p2 - q2)
             better == bestDist2 < 0 \/ d2 < bestDist2
         IN ProjectFrom(coords, i + 1, p2, offset2 + Abs(b2 - a2),
                        IF better THEN d2 ELSE bestDist2,
                        IF better THEN offset2 + Abs(q2 - a2) ELSE bestAlong2)

Project2(coords, p2) == ProjectFrom(coords, 1, p2, 0, -1, 0)

RECURSIVE InterpolateFrom(_, _, _)
\* route_linestring.interpolate(along): twice the longitude of the point at
\* the doubled distance along2 from the start
InterpolateFrom(coords, i, along2) ==
    LET a2 == 2 * coords[i]
        b2 == 2 * coords[i + 1]
        len2 == Abs(b2 - a2)
    IN IF along2 <= len2 \/ i + 1 = Len(coords)
       THEN IF b2 >= a2 THEN a2 + Min2(along2, len2) ELSE a2 - Min2(along2, len2)
       ELSE InterpolateFrom(coords, i + 1, along2 - len2)

Interpolate2(coords, along2) == InterpolateFrom(coords, 1, along2)

----------------------------------------------------------------------------
(* route_service: building the route link graph *)

\* find_links_in_buffer: the catalog records whose segment meets the corridor.
\* A record whose coordinates raise an exception that create_link_linestring
\* does not catch aborts the whole scan.
find_links_in_buffer(coords, links, buffer_meters) ==
    IF \E i \in 1..Len(links) : create_link_linestring(links[i]) = "raise"
    THEN [kind |-> "raise", links |-> <<>>]
    ELSE [kind |-> "ok",
          links |-> FilterSeq(links,
                       [i \in 1..Len(links) |->
                           /\ create_link_linestring(links[i]) = "ok"
                           /\ Intersects(links[i], coords, buffer_meters)])]

\* distance_along of one link: project the midpoint, interpolate, project again
DistanceAlong2(link, coords) ==
    Project2(coords, Interpolate2(coords, Project2(coords, Mid2(link))))

\* an unstable insertion: an element goes before the elements of equal key
InsertSorted_Unstable(sorted, x) ==
    LET n == Cardinality({i \in 1..Len(sorted) : sorted[i].distance_along < x.distance_along})
    IN SubSeq(sorted, 1, n) \o <<x>> \o SubSeq(sorted, n + 1, Len(sorted))

\* list.sort(key=...) is stable: an element goes after every element whose
\* key is not larger
InsertSorted(sorted, x) ==
    LET n == Cardinality({i \in 1..Len(sorted) : sorted[i].distance_along <= x.distance_along})
    IN SubSeq(sorted, 1, n) \o <<x>> \o SubSeq(sorted, n + 1, Len(sorted))

RECURSIVE SortByDistance(_)
SortByDistance(s) ==
    IF s = <<>> THEN <<>>
    ELSE InsertSorted(SortByDistance(SubSeq(s, 1, Len(s) - 1)), s[Len(s)])

\* order_links_along_route: (link, distance_along, order) triples
order_links_along_route(links, coords) ==
    LET usable == FilterSeq(links,
                     [i \in 1..Len(links) |-> create_link_linestring(links[i]) = "ok"])
        link_positions == [i \in 1..Len(usable) |->
                             [link |-> usable[i],
                              distance_along |-> DistanceAlong2(usable[i], coords)]]
        sorted == SortByDistance(link_positions)
    IN [i \in 1..Len(sorted) |->
          [link |-> sorted[i].link,
           distance_along |-> sorted[i].distance_along,
           order |-> i - 1]]

\* a variant that compares this link's START point with the other's START point
find_inbound_links_StartToStart(current_link, links, buffer_meters) ==
    LET hit == [i \in 1..Len(links) |->
                  /\ links[i].LinkID # current_link.LinkID
                  /\ points_match(current_link.StartLat.v, current_link.StartLon.v,
                                  links[i].StartLat.v, links[i].StartLon.v, buffer_meters)]
        hits == FilterSeq(links, hit)
    IN [i \in 1..Len(hits) |-> hits[i].LinkID]

\* find_inbound_links: ids of the other links whose END point is within the
\* buffer of this link's START point.  (A TypeError cannot reach this point:
\* find_links_in_buffer has raised on such a record before.)
find_inbound_links(current_link, links, buffer_meters) ==
    IF ~(FloatErr(current_link.StartLat) = "ok" /\ FloatErr(current_link.StartLon) = "ok")
    THEN <<>>
    ELSE LET hit == [i \in 1..Len(links) |->
                       /\ links[i].LinkID # current_link.LinkID
                       /\ FloatErr(links[i].EndLat) = "ok"
                       /\ FloatErr(links[i].EndLon) = "ok"
                       /\ points_match(current_link.StartLat.v, current_link.StartLon.v,
                                       links[i].EndLat.v, links[i].EndLon.v, buffer_meters)]
             hits == FilterSeq(links, hit)
         IN [i \in 1..Len(hits) |-> hits[i].LinkID]

\* find_outbound_links: ids of the other links whose START point is within the
\* buffer of this link's END point
find_outbound_links(current_link, links, buffer_meters) ==
    IF ~(FloatErr(current_link.EndLat) = "ok" /\ FloatErr(current_link.EndLon) = "ok")
    THEN <<>>
    ELSE LET hit == [i \in 1..Len(links) |->
                       /\ links[i].LinkID # current_link.LinkID
                       /\ FloatErr(links[i].StartLat) = "ok"
                       /\ FloatErr(links[i].StartLon) = "ok"
                       /\ points_match(current_link.EndLat.v, current_link.EndLon.v,
                                       links[i].StartLat.v, links[i].StartLon.v, buffer_meters)]
             hits == FilterSeq(links, hit)
         IN [i \in 1..Len(hits) |-> hits[i].LinkID]

\* a variant that names the link two places further on
find_next_links_SkipsOne(current_order, ordered) ==
    IF current_order + 2 < Len(ordered)
    THEN <<ordered[current_order + 3].link.LinkID>>
    ELSE <<>>

\* find_next_links: the id of the link at order + 1, if any
find_next_links(current_order, ordered) ==
    IF current_order + 1 < Len(ordered)
    THEN <<ordered[current_order + 2].link.LinkID>>
    ELSE <<>>

\* the link_entry built for one ordered link
LinkEntry(t, matching_links, ordered, buffer_meters) ==
    t.link @@
    [order |-> t.order,
     distance_along_route |-> t.distance_along,
     inbound_link_ids |-> find_inbound_links(t.link, matching_links, buffer_meters),
     outbound_link_ids |-> find_outbound_links(t.link, matching_links, buffer_meters),
     next_link_ids |-> find_next_links(t.order, ordered)]

\* process_route: [kind |-> "none"], [kind |-> "raise"] or the route graph
process_route(service_no, direction, stops, links, buffer_meters) ==
    LET line == get_route_linestring_from_stops(stops)
        found == find_links_in_buffer(line.coords, links, buffer_meters)
        ordered == order_links_along_route(found.links, line.coords)
        entries == [i \in 1..Len(ordered) |->
                      LinkEntry(ordered[i], found.links, ordered, buffer_meters)]
    IN IF stops = <<>> \/ line.kind = "none" THEN [kind |-> "none"]
       ELSE IF found.kind = "raise" THEN [kind |-> "raise"]
       ELSE IF found.links = <<>> THEN [kind |-> "none"]
       ELSE [kind |-> "graph",
             ServiceNo |-> service_no,
             Direction |-> direction,
             buffer_meters |-> buffer_meters,
             ordered_links |-> entries,
             link_index |-> [id \in {entries[i].LinkID : i \in 1..Len(entries)} |->
                               entries[CHOOSE i \in 1..Len(entries) :
                                          /\ entries[i].LinkID = id
                                          /\ \A j \in (i + 1)..Len(entries) :
                                                entries[j].LinkID # id]]]

----------------------------------------------------------------------------
(* cache.RouteCache and route_service.get_route_links *)

ServiceNos == {12}
Directions == {1, 2}

\* RouteCache key: f"{service_no}_{direction}"
CacheKey(service_no, direction) == ToString(service_no) \o "_" \o ToString(direction)

\* a cache that never reports a key as present
RouteCache_has_Never(cache, service_no, direction) == FALSE

RouteCache_has(cache, service_no, direction) ==
    CacheKey(service_no, direction) \in DOMAIN cache

RouteCache_get(cache, service_no, direction) ==
    cache[CacheKey(service_no, direction)]

RouteCache_set(cache, service_no, direction, route_data) ==
    (CacheKey(service_no, direction) :> route_data) @@ cache

\* get_route_links on a cache hit: the cached graph, nothing else happens
GetRouteLinksHit(service_no, direction) ==
    /\ RouteCache_has(route_cache, service_no, direction)
    /\ call' = [op |-> "get_route_links", service_no |-> service_no,
                direction |-> direction, ran_process_route |-> FALSE,
                stops |-> <<>>,
                result |-> RouteCache_get(route_cache, service_no, direction)]
    /\ UNCHANGED <<all_links, route_cache>>

\* get_route_links on a cache miss: process_route over what the feeds return
\* now; a graph is cached, an absent result or an exception is not
GetRouteLinksMiss(service_no, direction) ==
    /\ ~RouteCache_has(route_cache, service_no, direction)
    /\ \E stops \in Upstreams :
         LET route_data == process_route(service_no, direction, stops,
                                         all_links, ROUTE_BUFFER_METERS)
         IN /\ call' = [op |-> "get_route_links", service_no |-> service_no,
                        direction |-> direction, ran_process_route |-> TRUE,
                        stops |-> stops,
                        result |-> route_data]
            /\ route_cache' = IF route_data.kind = "graph"
                              THEN RouteCache_set(route_cache, service_no, direction, route_data)
                              ELSE route_cache
    /\ UNCHANGED all_links

GetRouteLinks ==
    \E service_no \in ServiceNos, direction \in Directions :
        \/ GetRouteLinksHit(service_no, direction)
        \/ GetRouteLinksMiss(service_no, direction)

Init ==
    /\ all_links \in Catalogs
    /\ route_cache = <<>>
    /\ call = NoCall

Next == GetRouteLinks

Spec == Init /\ [][Next]_vars

----------------------------------------------------------------------------
(* link_service.get_current_link *)

FixLats == {0, 4}
FixLons == {-3, 5, 10, 13, 22}

\* point.distance(link_line), squared: the fix is lat off the parallel and the
\* segment is the interval between the two longitudes
PointDistanceSq(lat, lon, link) ==
    LET lo == Min2(link.StartLon.v, link.EndLon.v)
        hi == Max2(link.StartLon.v, link.EndLon.v)
        dx == IF lon < lo THEN lo - lon ELSE IF lon > hi THEN lon - hi ELSE 0
    IN dx * dx + lat * lat

NoLink == [kind |-> "none"]

RECURSIVE ClosestFrom_LastWins(_, _, _, _, _, _)
\* a scan in which a link at an equal distance replaces the link found so far
ClosestFrom_LastWins(links, i, lat, lon, min_distance, closest_link) ==
    IF i > Len(links) THEN closest_link
    ELSE IF create_link_linestring(links[i]) # "ok"
         THEN ClosestFrom_LastWins(links, i + 1, lat, lon, min_distance, closest_link)
         ELSE LET distance == PointDistanceSq(lat, lon, links[i])
              IN IF min_distance < 0 \/ distance <= min_distance
                 THEN ClosestFrom_LastWins(links, i + 1, lat, lon, distance,
                                           [kind |-> "link", link |-> links[i]])
                 ELSE ClosestFrom_LastWins(links, i + 1, lat, lon, min_distance,
                                           closest_link)

RECURSIVE ClosestFrom_TypeErrorEscapes(_, _, _, _, _, _)
\* a scan whose except clause catches ValueError and KeyError only, so that
\* the TypeError of a null coordinate ends the call
ClosestFrom_TypeErrorEscapes(links, i, lat, lon, min_distance, closest_link) ==
    IF i > Len(links) THEN closest_link
    ELSE IF create_link_linestring(links[i]) = "raise" THEN [kind |-> "raise"]
         ELSE IF create_link_linestring(links[i]) # "ok"
              THEN ClosestFrom_TypeErrorEscapes(links, i + 1, lat, lon, min_distance,
                                                closest_link)
              ELSE IF min_distance < 0
                      \/ PointDistanceSq(lat, lon, links[i]) < min_distance
                   THEN ClosestFrom_TypeErrorEscapes(
                            links, i + 1, lat, lon,
                            PointDistanceSq(lat, lon, links[i]),
                            [kind |-> "link", link |-> links[i]])
                   ELSE ClosestFrom_TypeErrorEscapes(links, i + 1, lat, lon,
                                                     min_distance, closest_link)

RECURSIVE ClosestFrom(_, _, _, _, _, _)
\* the loop of get_current_link from index i on: a link without a LineString
\* is skipped (a TypeError is swallowed by the `except Exception`), and only a
\* strictly smaller distance replaces the link found so far.
\* min_distance = -1 stands for float('inf').
ClosestFrom(links, i, lat, lon, min_distance, closest_link) ==
    IF i > Len(links) THEN closest_link
    ELSE IF create_link_linestring(links[i]) # "ok"
         THEN ClosestFrom(links, i + 1, lat, lon, min_distance, closest_link)
         ELSE LET distance == PointDistanceSq(lat, lon, links[i])
              IN IF min_distance < 0 \/ distance < min_distance
                 THEN ClosestFrom(links, i + 1, lat, lon, distance,
                                  [kind |-> "link", link |-> links[i]])
                 ELSE ClosestFrom(links, i + 1, lat, lon, min_distance, closest_link)

get_current_link(lat, lon, ordered_links) ==
    ClosestFrom(ordered_links, 1, lat, lon, -1, NoLink)

\* the diagnostic list: one entry per link with a LineString, sorted by
\* distance (stable), cut to the first five
InsertByDistance(sorted, x) ==
    LET n == Cardinality({i \in 1..Len(sorted) : sorted[i].distance <= x.distance})
    IN SubSeq(sorted, 1, n) \o <<x>> \o SubSeq(sorted, n + 1, Len(sorted))

RECURSIVE SortDistances(_)
SortDistances(s) ==
    IF s = <<>> THEN <<>>
    ELSE InsertByDistance(SortDistances(SubSeq(s, 1, Len(s) - 1)), s[Len(s)])

TopFive(lat, lon, ordered_links) ==
    LET usable == FilterSeq(ordered_links,
                     [i \in 1..Len(ordered_links) |->
                        create_link_linestring(ordered_links[i]) = "ok"])
        distances == [i \in 1..Len(usable) |->
                        [order |-> IF "order" \in DOMAIN usable[i]
                                   THEN usable[i].order ELSE -1,
                         link_id |-> usable[i].LinkID,
                         distance |-> PointDistanceSq(lat, lon, usable[i])]]
        sorted == SortDistances(distances)
    IN SubSeq(sorted, 1, Min2(5, Len(sorted)))

\* records whose coordinates do not all convert: null, missing, not a number
BrokenRecords == {[LinkID |-> IdOf(0)] @@ s : s \in {t \in Shapes : LinestringErr(t) # "ok"}}

\* the link lists a fix is matched against: the ordered links of a cached
\* route, the raw catalog, the empty list, a list of one broken record, and
\* the catalog behind a broken record
LinkLists ==
    {route_cache[k].ordered_links : k \in DOMAIN route_cache}
    \cup {all_links, <<>>}
    \cup {<<b>> : b \in BrokenRecords}
    \cup {<<b>> \o all_links : b \in BrokenRecords}

GetCurrentLink ==
    /\ call = NoCall
    /\ \E lat \in FixLats, lon \in FixLons, links \in LinkLists :
        /\ call' = [op |-> "get_current_link", lat |-> lat, lon |-> lon,
                    links |-> links,
                    shortlist |-> TopFive(lat, lon, links),
                    result |-> get_current_link(lat, lon, links)]
        /\ UNCHANGED <<all_links, route_cache>>

----------------------------------------------------------------------------
(* link_service.get_links_for_analysis *)

RECURSIVE AddResolved(_, _, _)
\* append the nodes of the ids that are new and resolve in the link index
AddResolved(acc, ids, link_index) ==
    IF ids = <<>> THEN acc
    ELSE LET id == Head(ids)
         IN IF id \notin acc.seen /\ id \in DOMAIN link_index
            THEN AddResolved([list |-> Append(acc.list, link_index[id]),
                              seen |-> acc.seen \cup {id}],
                             Tail(ids), link_index)
            ELSE AddResolved(acc, Tail(ids), link_index)

RECURSIVE AddNextLinks(_, _, _, _, _)
\* for i in range(1, num_future_links + 1): the node at order + i, if any
AddNextLinks(acc, i, num_future_links, current_order, ordered_links) ==
    IF i > num_future_links THEN acc
    ELSE LET next_order == current_order + i
         IN IF next_order < Len(ordered_links)
               /\ ordered_links[next_order + 1].LinkID # ""
               /\ ordered_links[next_order + 1].LinkID \notin acc.seen
            THEN AddNextLinks([list |-> Append(acc.list, ordered_links[next_order + 1]),
                               seen |-> acc.seen \cup {ordered_links[next_order + 1].LinkID}],
                              i + 1, num_future_links, current_order, ordered_links)
            ELSE AddNextLinks(acc, i + 1, num_future_links, current_order, ordered_links)

\* the current link and the next links, before the neighbours are added
WindowBase(current_link, route_data, num_future_links) ==
    LET id == current_link.LinkID
        first == IF id # "" /\ id \in DOMAIN route_data.link_index
                 THEN [list |-> <<route_data.link_index[id]>>, seen |-> {id}]
                 ELSE [list |-> <<>>, seen |-> {}]
    IN AddNextLinks(first, 1, num_future_links, current_link.order,
                    route_data.ordered_links)

RECURSIVE AddNeighbours(_, _, _)
\* for link in links_for_analysis[:]: its inbound ids, then its outbound ids
AddNeighbours(acc, snapshot, link_index) ==
    IF snapshot = <<>> THEN acc
    ELSE LET link == Head(snapshot)
             withIn == AddResolved(acc, link.inbound_link_ids, link_index)
             withOut == AddResolved(withIn, link.outbound_link_ids, link_index)
         IN AddNeighbours(withOut, Tail(snapshot), link_index)

\* a window of the current link and the next links, without any neighbour
get_links_for_analysis_NoNeighbours(current_link, route_data, num_future_links) ==
    WindowBase(current_link, route_data, num_future_links).list

\* a window that takes the neighbours of the target link only
get_links_for_analysis_TargetOnly(current_link, route_data, num_future_links) ==
    LET base == WindowBase(current_link, route_data, num_future_links)
        target == IF Len(base.list) >= 2 THEN <<base.list[2]>>
                  ELSE SubSeq(base.list, 1, 1)
    IN AddNeighbours(base, target, route_data.link_index).list

get_links_for_analysis(current_link, route_data, num_future_links) ==
    LET base == WindowBase(current_link, route_data, num_future_links)
    IN AddNeighbours(base, base.list, route_data.link_index).list

Lookaheads == (0..MaxK) \cup {NUM_FUTURE_LINKS}

GetLinksForAnalysis ==
    /\ call = NoCall
    /\ \E k \in DOMAIN route_cache, num_future_links \in Lookaheads :
      \E o \in 1..Len(route_cache[k].ordered_links) :
        LET route_data == route_cache[k]
            current_link == route_data.ordered_links[o]
        IN /\ call' = [op |-> "get_links_for_analysis",
                       current_link |-> current_link,
                       route_data |-> route_data,
                       num_future_links |-> num_future_links,
                       result |-> get_links_for_analysis(current_link, route_data,
                                                         num_future_links)]
           /\ UNCHANGED <<all_links, route_cache>>

\* One request served from a cache that already holds the route of one key.
\* The request operations leave the catalog and the cache as they are, so a
\* behaviour of one request each covers every request that can be made.
InitRequest ==
    /\ all_links \in Catalogs
    /\ \E service_no \in ServiceNos, direction \in Directions, stops \in Upstreams :
         LET route_data == process_route(service_no, direction, stops,
                                         all_links, ROUTE_BUFFER_METERS)
         IN /\ route_data.kind = "graph"
            /\ route_cache = RouteCache_set(<<>>, service_no, direction, route_data)
    /\ call = NoCall

NextRequest == GetCurrentLink \/ GetLinksForAnalysis

SpecRequest == InitRequest /\ [][NextRequest]_vars

----------------------------------------------------------------------------
(* predictor_service: speed-band observations and the history sequence *)

MIN_HISTORY_LENGTH == 5     \* default of min_history_length
DEFAULT_BAND == 3           \* the band of a history without observations

\* an entry of the speed_bands map, as speed_service builds it; a missing or
\* null speedband is Null, a missing speed is 0
Obs(speedband, minspeed, maxspeed) ==
    [speedband |-> speedband, minspeed |-> minspeed, maxspeed |-> maxspeed]

\* a variant that tests the band with `if speedband:` and so loses band 0
extract_speedband_from_data_FalsyZero(speed_data) ==
    IF speed_data.speedband.k = "num" /\ speed_data.speedband.v # 0
    THEN Num(speed_data.speedband.v)
    ELSE IF speed_data.maxspeed > 0
         THEN Num(Min2(8, (speed_data.minspeed + speed_data.maxspeed) \div 20))
         ELSE Null

\* extract_speedband_from_data: Num(band), or Null for None.  The band is
\* taken as it is when it converts with int(); otherwise it is the bucket of
\* the midpoint of the two speeds, provided the maximum speed is positive.
extract_speedband_from_data(speed_data) ==
    LET sum == speed_data.minspeed + speed_data.maxspeed    \* twice avg_speed
    IN IF speed_data.speedband.k = "num" THEN Num(speed_data.speedband.v)
       ELSE IF speed_data.maxspeed > 0
            THEN Num(IF sum < 2 * 10 THEN 0
                     ELSE IF sum < 2 * 20 THEN 1
                     ELSE IF sum < 2 * 30 THEN 2
                     ELSE IF sum < 2 * 40 THEN 3
                     ELSE IF sum < 2 * 50 THEN 4
                     ELSE IF sum < 2 * 60 THEN 5
                     ELSE IF sum < 2 * 70 THEN 6
                     ELSE IF sum < 2 * 80 THEN 7
                     ELSE 8)
            ELSE Null

NonEmptyId(id) == IF id # "" THEN <<id>> ELSE <<>>

RECURSIVE NonEmptyIds(_)
NonEmptyIds(links) ==
    IF links = <<>> THEN <<>>
    ELSE NonEmptyId(Head(links).LinkID) \o NonEmptyIds(Tail(links))

\* a candidate list that puts the current link before the inbound neighbours
CandidateIds_CurrentFirst(target_link, current_link, next_links) ==
    NonEmptyId(current_link.LinkID)
    \o target_link.inbound_link_ids
    \o NonEmptyId(target_link.LinkID)
    \o NonEmptyIds(next_links)
    \o target_link.outbound_link_ids

\* candidate_ids: inbound neighbours of the target, the current link, the
\* target, the next links, the outbound neighbours of the target
CandidateIds(target_link, current_link, next_links) ==
    target_link.inbound_link_ids
    \o NonEmptyId(current_link.LinkID)
    \o NonEmptyId(target_link.LinkID)
    \o NonEmptyIds(next_links)
    \o target_link.outbound_link_ids

RECURSIVE DedupFrom(_, _)
\* ordered_ids: every non-empty id once, at its first occurrence
DedupFrom(ids, seen) ==
    IF ids = <<>> THEN <<>>
    ELSE IF Head(ids) # "" /\ Head(ids) \notin seen
         THEN <<Head(ids)>> \o DedupFrom(Tail(ids), seen \cup {Head(ids)})
         ELSE DedupFrom(Tail(ids), seen)

RECURSIVE CollectFrom_NoBreak(_, _, _, _)
\* a collection loop that does not stop at min_history_length
CollectFrom_NoBreak(ids, speed_bands, history, min_history_length) ==
    IF ids = <<>> THEN history
    ELSE LET lid == Head(ids)
             speedband == IF lid \in DOMAIN speed_bands
                          THEN extract_speedband_from_data(speed_bands[lid])
                          ELSE Null
         IN IF speedband.k = "num"
               /\ (history = <<>> \/ history[Len(history)] # speedband.v)
            THEN CollectFrom_NoBreak(Tail(ids), speed_bands,
                                     Append(history, speedband.v), min_history_length)
            ELSE CollectFrom_NoBreak(Tail(ids), speed_bands, history, min_history_length)

RECURSIVE CollectFrom_KeepDuplicates(_, _, _, _)
\* a collection loop that appends a band equal to the one before it
CollectFrom_KeepDuplicates(ids, speed_bands, history, min_history_length) ==
    IF ids = <<>> THEN history
    ELSE LET lid == Head(ids)
             speedband == IF lid \in DOMAIN speed_bands
                          THEN extract_speedband_from_data(speed_bands[lid])
                          ELSE Null
         IN IF speedband.k = "num"
            THEN IF Len(history) + 1 >= min_history_length
                 THEN Append(history, speedband.v)
                 ELSE CollectFrom_KeepDuplicates(Tail(ids), speed_bands,
                                                 Append(history, speedband.v),
                                                 min_history_length)
            ELSE CollectFrom_KeepDuplicates(Tail(ids), speed_bands, history,
                                            min_history_length)

RECURSIVE CollectFrom(_, _, _, _)
\* the loop over ordered_ids: a band is appended when it differs from the
\* last one appended, and the loop stops once min_history_length are there
CollectFrom(ids, speed_bands, history, min_history_length) ==
    IF ids = <<>> THEN history
    ELSE LET lid == Head(ids)
             speedband == IF lid \in DOMAIN speed_bands
                          THEN extract_speedband_from_data(speed_bands[lid])
                          ELSE Null
         IN IF speedband.k = "num"
               /\ (history = <<>> \/ history[Len(history)] # speedband.v)
            THEN IF Len(history) + 1 >= min_history_length
                 THEN Append(history, speedband.v)
                 ELSE CollectFrom(Tail(ids), speed_bands,
                                  Append(history, speedband.v), min_history_length)
            ELSE CollectFrom(Tail(ids), speed_bands, history, min_history_length)

\* the history as the loop leaves it, before padding
CollectHistory(target_link, current_link, next_links, speed_bands, min_history_length) ==
    CollectFrom(DedupFrom(CandidateIds(target_link, current_link, next_links), {}),
                speed_bands, <<>>, min_history_length)

\* a padding that fills with the default band instead of the last value
PadHistory_WithDefault(history, min_history_length) ==
    IF Len(history) >= min_history_length THEN history
    ELSE history \o [i \in 1..(min_history_length - Len(history)) |-> DEFAULT_BAND]

\* pad with the last value, or default the whole sequence
PadHistory(history, min_history_length) ==
    IF history # <<>>
    THEN IF Len(history) >= min_history_length THEN history
         ELSE history \o [i \in 1..(min_history_length - Len(history)) |->
                            history[Len(history)]]
    ELSE [i \in 1..min_history_length |-> DEFAULT_BAND]

build_speedband_history(target_link, current_link, next_links, speed_bands, min_len) ==
    PadHistory(CollectHistory(target_link, current_link, next_links, speed_bands, min_len),
               min_len)

\* inputs of build_speedband_history
HistoryIds == {"L1", "L2", "L3"}
HistoryLengths == {1, 2, MIN_HISTORY_LENGTH}

\* the observations a link may have: a band, no band but two speeds, nothing usable
ObsValues == { Obs(Num(3), 30, 39), Obs(Num(6), 60, 69),
               Obs(Null, 60, 69), Obs(Null, 0, 0) }

SpeedBandMaps == UNION {[D -> ObsValues] : D \in SUBSET HistoryIds}

\* sequences of at most two distinct ids
IdLists(ids) ==
    {<<>>} \cup {<<a>> : a \in ids}
    \cup {<<p[1], p[2]>> : p \in {q \in ids \X ids : q[1] # q[2]}}

BuildSpeedbandHistory ==
    /\ call = NoCall
    /\ \E target_id \in HistoryIds, current_id \in HistoryIds,
       speed_bands \in SpeedBandMaps, min_history_length \in HistoryLengths :
      \E inbound \in IdLists(HistoryIds \ {target_id}),
         outbound \in {l \in IdLists(HistoryIds \ {target_id}) : Len(l) <= 1},
         next_ids \in IdLists(HistoryIds \ {current_id}) :
        LET target_link == [LinkID |-> target_id, inbound_link_ids |-> inbound,
                            outbound_link_ids |-> outbound]
            current_link == [LinkID |-> current_id]
            next_links == [i \in 1..Len(next_ids) |-> [LinkID |-> next_ids[i]]]
        IN call' = [op |-> "build_speedband_history",
                    target_link |-> target_link,
                    current_link |-> current_link,
                    next_links |-> next_links,
                    speed_bands |-> speed_bands,
                    min_history_length |-> min_history_length,
                    collected |-> CollectHistory(target_link, current_link, next_links,
                                                 speed_bands, min_history_length),
                    result |-> build_speedband_history(target_link, current_link,
                                                       next_links, speed_bands,
                                                       min_history_length)]
    /\ UNCHANGED <<all_links, route_cache>>

\* one call of the history builder; no catalog and no route are involved
InitHistory ==
    /\ all_links = <<>>
    /\ route_cache = <<>>
    /\ call = NoCall

NextHistory == BuildSpeedbandHistory

SpecHistory == InitHistory /\ [][NextHistory]_vars

----------------------------------------------------------------------------
(* recommendation_service.  Speeds named ...2 are doubled, so that the mean *)
(* of two integer speeds is an integer.                                     *)

FAST_SPEED_THRESHOLD == 50
SLOW_SPEED_THRESHOLD == 30
SPEED_DIFFERENCE_THRESHOLD == 15

\* predictor_service.speedband_to_speed: the midpoint of the band, 35 for a
\* band outside 0..8
speedband_to_speed(speedband) ==
    IF speedband \in 0..8 THEN 10 * speedband + 5 ELSE 35

\* a variant that reads the band before the two speeds
get_current_link_speed2_BandFirst(current_link, speed_bands) ==
    LET current_link_id == current_link.LinkID
    IN IF current_link_id \in DOMAIN speed_bands
          /\ speed_bands[current_link_id].speedband.k = "num"
       THEN 2 * speedband_to_speed(speed_bands[current_link_id].speedband.v)
       ELSE IF current_link_id \in DOMAIN speed_bands
               /\ speed_bands[current_link_id].maxspeed > 0
            THEN speed_bands[current_link_id].minspeed
                 + speed_bands[current_link_id].maxspeed
            ELSE 0

\* get_current_link_speed, doubled.  (The band is read with int(), which
\* raises on a band that is not a number; the entries modelled carry a
\* number or null.)
get_current_link_speed2(current_link, speed_bands) ==
    LET current_link_id == current_link.LinkID
    IN IF current_link_id \in DOMAIN speed_bands /\ speed_bands[current_link_id].maxspeed > 0
       THEN speed_bands[current_link_id].minspeed + speed_bands[current_link_id].maxspeed
       ELSE IF current_link_id \in DOMAIN speed_bands
               /\ speed_bands[current_link_id].speedband.k = "num"
            THEN 2 * speedband_to_speed(speed_bands[current_link_id].speedband.v)
            ELSE 0

\* a variant whose Rule 2 coasts instead of speeding up
generate_recommendation_SlowdownCoasts(current_link, predicted_speed, speed_bands, has_rain, has_incident) ==
    LET current_speed2 == get_current_link_speed2(current_link, speed_bands)
        current_is_fast == current_speed2 >= 2 * FAST_SPEED_THRESHOLD
        current_is_slow == current_speed2 <= 2 * SLOW_SPEED_THRESHOLD
        predicted_is_fast == predicted_speed >= FAST_SPEED_THRESHOLD
        predicted_is_slow == predicted_speed <= SLOW_SPEED_THRESHOLD
        speed_difference2 == current_speed2 - 2 * predicted_speed
        decision ==
            IF current_is_fast /\ predicted_is_fast
            THEN [action |-> "maintain_speed", urgency |-> "low", color_cue |-> "green",
                  reasoning |-> "Both current and next link are fast. Maintain current speed."]
            ELSE IF current_is_fast /\ ~predicted_is_fast
                    /\ speed_difference2 > 2 * SPEED_DIFFERENCE_THRESHOLD
            THEN [action |-> "coast", urgency |-> "medium", color_cue |-> "yellow",
                  reasoning |-> "Start coasting to avoid braking."]
            ELSE IF current_is_fast /\ predicted_is_slow
            THEN [action |-> "coast",
                  urgency |-> IF has_rain \/ has_incident THEN "high" ELSE "medium",
                  color_cue |-> "yellow",
                  reasoning |-> IF has_rain THEN "Rain detected - start coasting early."
                                ELSE IF has_incident
                                     THEN "Incident ahead - start coasting early."
                                     ELSE "Start coasting to avoid braking."]
            ELSE IF current_is_slow /\ predicted_is_slow
            THEN [action |-> "crawl", urgency |-> "low", color_cue |-> "red",
                  reasoning |-> "Continue at slow speed."]
            ELSE IF current_is_slow /\ predicted_is_fast
            THEN [action |-> "speed_up", urgency |-> "low", color_cue |-> "orange",
                  reasoning |-> "Prepare to accelerate."]
            ELSE IF ~current_is_fast /\ ~current_is_slow
                    /\ ~predicted_is_fast /\ ~predicted_is_slow
            THEN [action |-> "maintain_speed", urgency |-> "low", color_cue |-> "green",
                  reasoning |-> "Moderate speeds. Maintain current speed."]
            ELSE [action |-> "maintain_speed", urgency |-> "low", color_cue |-> "green",
                  reasoning |-> "Maintain current speed."]
    IN [action |-> decision.action,
        current_speed2 |-> current_speed2,
        predicted_speed |-> predicted_speed,
        reasoning |-> decision.reasoning,
        urgency |-> decision.urgency,
        color_cue |-> decision.color_cue,
        has_rain |-> has_rain,
        has_incident |-> has_incident]

\* a variant without the final else: the action stays None
generate_recommendation_NoFallback(current_link, predicted_speed, speed_bands, has_rain, has_incident) ==
    LET current_speed2 == get_current_link_speed2(current_link, speed_bands)
        current_is_fast == current_speed2 >= 2 * FAST_SPEED_THRESHOLD
        current_is_slow == current_speed2 <= 2 * SLOW_SPEED_THRESHOLD
        predicted_is_fast == predicted_speed >= FAST_SPEED_THRESHOLD
        predicted_is_slow == predicted_speed <= SLOW_SPEED_THRESHOLD
        speed_difference2 == current_speed2 - 2 * predicted_speed
        decision ==
            IF current_is_fast /\ predicted_is_fast
            THEN [action |-> "maintain_speed", urgency |-> "low", color_cue |-> "green",
                  reasoning |-> "Both current and next link are fast. Maintain current speed."]
            ELSE IF current_is_fast /\ ~predicted_is_fast
                    /\ speed_difference2 > 2 * SPEED_DIFFERENCE_THRESHOLD
            THEN [action |-> "speed_up", urgency |-> "medium", color_cue |-> "orange",
                  reasoning |-> "Speed up to pass before slowdown."]
            ELSE IF current_is_fast /\ predicted_is_slow
            THEN [action |-> "coast",
                  urgency |-> IF has_rain \/ has_incident THEN "high" ELSE "medium",
                  color_cue |-> "yellow",
                  reasoning |-> IF has_rain THEN "Rain detected - start coasting early."
                                ELSE IF has_incident
                                     THEN "Incident ahead - start coasting early."
                                     ELSE "Start coasting to avoid braking."]
            ELSE IF current_is_slow /\ predicted_is_slow
            THEN [action |-> "crawl", urgency |-> "low", color_cue |-> "red",
                  reasoning |-> "Continue at slow speed."]
            ELSE IF current_is_slow /\ predicted_is_fast
            THEN [action |-> "speed_up", urgency |-> "low", color_cue |-> "orange",
                  reasoning |-> "Prepare to accelerate."]
            ELSE IF ~current_is_fast /\ ~current_is_slow
                    /\ ~predicted_is_fast /\ ~predicted_is_slow
            THEN [action |-> "maintain_speed", urgency |-> "low", color_cue |-> "green",
                  reasoning |-> "Moderate speeds. Maintain current speed."]
            ELSE [action |-> "None", urgency |-> "medium", color_cue |-> "green",
                  reasoning |-> ""]
    IN [action |-> decision.action,
        current_speed2 |-> current_speed2,
        predicted_speed |-> predicted_speed,
        reasoning |-> decision.reasoning,
        urgency |-> decision.urgency,
        color_cue |-> decision.color_cue,
        has_rain |-> has_rain,
        has_incident |-> has_incident]

\* generate_recommendation: the if / elif chain in source order
generate_recommendation(current_link, predicted_speed, speed_bands, has_rain, has_incident) ==
    LET current_speed2 == get_current_link_speed2(current_link, speed_bands)
        current_is_fast == current_speed2 >= 2 * FAST_SPEED_THRESHOLD
        current_is_slow == current_speed2 <= 2 * SLOW_SPEED_THRESHOLD
        predicted_is_fast == predicted_speed >= FAST_SPEED_THRESHOLD
        predicted_is_slow == predicted_speed <= SLOW_SPEED_THRESHOLD
        speed_difference2 == current_speed2 - 2 * predicted_speed
        decision ==
            IF current_is_fast /\ predicted_is_fast
            THEN [action |-> "maintain_speed", urgency |-> "low", color_cue |-> "green",
                  reasoning |-> "Both current and next link are fast. Maintain current speed."]
            ELSE IF current_is_fast /\ ~predicted_is_fast
                    /\ speed_difference2 > 2 * SPEED_DIFFERENCE_THRESHOLD
            THEN [action |-> "speed_up", urgency |-> "medium", color_cue |-> "orange",
                  reasoning |-> "Speed up to pass before slowdown."]
            ELSE IF current_is_fast /\ predicted_is_slow
            THEN [action |-> "coast",
                  urgency |-> IF has_rain \/ has_incident THEN "high" ELSE "medium",
                  color_cue |-> "yellow",
                  reasoning |-> IF has_rain THEN "Rain detected - start coasting early."
                                ELSE IF has_incident
                                     THEN "Incident ahead - start coasting early."
                                     ELSE "Start coasting to avoid braking."]
            ELSE IF current_is_slow /\ predicted_is_slow
            THEN [action |-> "crawl", urgency |-> "low", color_cue |-> "red",
                  reasoning |-> "Continue at slow speed."]
            ELSE IF current_is_slow /\ predicted_is_fast
            THEN [action |-> "speed_up", urgency |-> "low", color_cue |-> "orange",
                  reasoning |-> "Prepare to accelerate."]
            ELSE IF ~current_is_fast /\ ~current_is_slow
                    /\ ~predicted_is_fast /\ ~predicted_is_slow
            THEN [action |-> "maintain_speed", urgency |-> "low", color_cue |-> "green",
                  reasoning |-> "Moderate speeds. Maintain current speed."]
            ELSE [action |-> "maintain_speed", urgency |-> "low", color_cue |-> "green",
                  reasoning |-> "Maintain current speed."]
    IN [action |-> decision.action,
        current_speed2 |-> current_speed2,
        predicted_speed |-> predicted_speed,
        reasoning |-> decision.reasoning,
        urgency |-> decision.urgency,
        color_cue |-> decision.color_cue,
        has_rain |-> has_rain,
        has_incident |-> has_incident]

\* inputs of generate_recommendation
CurrentObservations ==
    { Obs(Num(6), 60, 70), Obs(Num(5), 50, 50), Obs(Num(4), 45, 54),
      Obs(Num(3), 35, 45), Obs(Num(3), 30, 30), Obs(Num(1), 15, 25),
      Obs(Num(6), 0, 0), Obs(Num(2), 0, 0), Obs(Null, 0, 0) }

PredictedSpeeds == {5, 25, 30, 31, 35, 45, 49, 50, 65}

GenerateRecommendation ==
    /\ call = NoCall
    /\ \E speed_bands \in {<<>>} \cup {("L1" :> o) : o \in CurrentObservations},
          predicted_speed \in PredictedSpeeds,
          has_rain \in BOOLEAN, has_incident \in BOOLEAN :
         call' = [op |-> "generate_recommendation",
                  current_link |-> [LinkID |-> "L1"],
                  predicted_speed |-> predicted_speed,
                  speed_bands |-> speed_bands,
                  has_rain |-> has_rain,
                  has_incident |-> has_incident,
                  result |-> generate_recommendation([LinkID |-> "L1"], predicted_speed,
                                                     speed_bands, has_rain, has_incident)]
    /\ UNCHANGED <<all_links, route_cache>>

\* one call of the recommendation; no catalog and no route are involved
InitRecommend ==
    /\ all_links = <<>>
    /\ route_cache = <<>>
    /\ call = NoCall

NextRecommend == GenerateRecommendation

SpecRecommend == InitRecommend /\ [][NextRecommend]_vars

----------------------------------------------------------------------------
(* Properties of route construction and of the cache (specification Spec) *)

\* the graphs that exist: the cached ones and the one just returned
BuiltGraphs ==
    {route_cache[k] : k \in DOMAIN route_cache}
    \cup (IF call.op = "get_route_links" /\ call.result.kind = "graph"
          THEN {call.result} ELSE {})

\* position of a link id in the catalog
CatalogPos(id) == CHOOSE i \in 1..Len(all_links) : all_links[i].LinkID = id

\* C7: in every route graph built by process_route the node at list position
\* i has order i (0-based), distance_along_route never decreases along the
\* list, and nodes of equal distance keep their relative catalog order.
C7_OrderFollowsDistance ==
    \A g \in BuiltGraphs :
        LET ol == g.ordered_links
        IN /\ \A i \in 1..Len(ol) : ol[i].order = i - 1
           /\ \A i \in 1..(Len(ol) - 1) :
                 ol[i].distance_along_route <= ol[i + 1].distance_along_route
           /\ \A i, j \in 1..Len(ol) :
                 (i < j /\ ol[i].distance_along_route = ol[j].distance_along_route)
                 => CatalogPos(ol[i].LinkID) < CatalogPos(ol[j].LinkID)

\* a graph was just built that has both two nodes at the same distance and
\* two nodes at different distances
C7_Witness ==
    /\ call.op = "get_route_links"
    /\ call.ran_process_route
    /\ call.result.kind = "graph"
    /\ LET ol == call.result.ordered_links
       IN /\ \E i \in 1..(Len(ol) - 1) :
                ol[i].distance_along_route = ol[i + 1].distance_along_route
          /\ \E i \in 1..(Len(ol) - 1) :
                ol[i].distance_along_route < ol[i + 1].distance_along_route

\* the catalog without the records whose coordinates are unusable
ValidLinks(links) ==
    FilterSeq(links, [i \in 1..Len(links) |-> LinestringErr(links[i]) = "ok"])

\* C8: building a route graph over a catalog in which some records have an
\* absent, null or non-numeric coordinate never raises; each such record is
\* skipped and the result is the graph of the remaining valid links.
C8_InvalidRecordsAreSkipped ==
    (call.op = "get_route_links" /\ call.ran_process_route)
    => /\ call.result.kind # "raise"
       /\ call.result = process_route(call.service_no, call.direction, call.stops,
                                      ValidLinks(all_links), ROUTE_BUFFER_METERS)

\* C10: once a graph is cached for a (service_no, direction), the entry stays
\* in the cache unchanged whatever is requested, and a request for that key
\* returns exactly that graph without running process_route.
C10_CachedGraphIsPermanent ==
    [][\A s \in ServiceNos, d \in Directions :
          CacheKey(s, d) \in DOMAIN route_cache
          => /\ CacheKey(s, d) \in DOMAIN route_cache'
             /\ route_cache'[CacheKey(s, d)] = route_cache[CacheKey(s, d)]
             /\ (call'.op = "get_route_links" /\ call'.service_no = s /\ call'.direction = d)
                => /\ call'.result = route_cache[CacheKey(s, d)]
                   /\ ~call'.ran_process_route]_vars

\* a request was answered from the cache while another key is cached too
C10_Witness ==
    /\ call.op = "get_route_links"
    /\ ~call.ran_process_route
    /\ call.result.kind = "graph"
    /\ Cardinality(DOMAIN route_cache) = 2
    /\ \E k1, k2 \in DOMAIN route_cache :
          route_cache[k1].ordered_links # route_cache[k2].ordered_links

----------------------------------------------------------------------------
(* Properties of the request helpers (specification SpecRequest) *)

IdsOf(list) == {list[i].LinkID : i \in 1..Len(list)}

\* the nodes at orders o+1 .. min(o+K, n-1) of the route, in route order
NextNodes(current_link, route_data, num_future_links) ==
    LET n == Len(route_data.ordered_links)
        o == current_link.order
    IN [i \in 1..Min2(num_future_links, n - 1 - o) |-> route_data.ordered_links[o + 1 + i]]

\* the first next link, or the current link when there is none
TargetOf(current_link, next_links) ==
    IF next_links # <<>> THEN next_links[1] ELSE current_link

\* the neighbour ids of a node that resolve in the link index
ResolvedNeighbours(node, route_data) ==
    (Range(node.inbound_link_ids) \cup Range(node.outbound_link_ids))
    \cap DOMAIN route_data.link_index

\* C1 as claimed: the window is exactly the current link, the next links and
\* the resolvable inbound/outbound neighbours of the target link.
C1_WindowHasTargetNeighboursOnly ==
    call.op = "get_links_for_analysis"
    => LET next_links == NextNodes(call.current_link, call.route_data,
                                   call.num_future_links)
       IN IdsOf(call.result) =
             {call.current_link.LinkID} \cup IdsOf(next_links)
             \cup ResolvedNeighbours(TargetOf(call.current_link, next_links),
                                     call.route_data)

\* C1 (amended): the window is exactly the current link, the next links
\* collected and the resolvable inbound/outbound neighbours of the current
\* link and of every next link collected; each link is in it once, as the node
\* the link index holds, the current link first and the next links after it.
C1_WindowHasNeighboursOfAllLinks ==
    call.op = "get_links_for_analysis"
    => LET next_links == NextNodes(call.current_link, call.route_data,
                                   call.num_future_links)
           base == <<call.current_link>> \o next_links
       IN /\ IdsOf(call.result) =
                IdsOf(base) \cup
                UNION {ResolvedNeighbours(base[i], call.route_data) : i \in 1..Len(base)}
          /\ Cardinality(IdsOf(call.result)) = Len(call.result)
          /\ SubSeq(call.result, 1, Len(base)) = base
          /\ \A i \in 1..Len(call.result) :
                call.result[i] = call.route_data.link_index[call.result[i].LinkID]

\* a window with a next link that holds a link which is neither the current
\* link, nor a next link, nor a neighbour of the target link
C1_Witness ==
    /\ call.op = "get_links_for_analysis"
    /\ LET next_links == NextNodes(call.current_link, call.route_data,
                                   call.num_future_links)
       IN /\ next_links # <<>>
          /\ \E id \in IdsOf(call.result) :
                /\ id \notin IdsOf(<<call.current_link>> \o next_links)
                /\ id \notin ResolvedNeighbours(TargetOf(call.current_link, next_links),
                                                call.route_data)

\* indexes of the links of a list that have valid geometry
ValidIndexes(links) == {i \in 1..Len(links) : LinestringErr(links[i]) = "ok"}

\* C6: get_current_link returns the link at the smallest distance from the
\* fix among the links with valid geometry, the first of the list among
\* those at that distance; the diagnostic shortlist has at most five entries,
\* starts with the link returned and does not alter the result.
C6_NearestLinkFirstOnTies ==
    (call.op = "get_current_link" /\ ValidIndexes(call.links) # {})
    => /\ call.result.kind = "link"
       /\ \E i \in ValidIndexes(call.links) :
             /\ call.result.link = call.links[i]
             /\ \A j \in ValidIndexes(call.links) :
                   /\ PointDistanceSq(call.lat, call.lon, call.links[i])
                        <= PointDistanceSq(call.lat, call.lon, call.links[j])
                   /\ (PointDistanceSq(call.lat, call.lon, call.links[j])
                         = PointDistanceSq(call.lat, call.lon, call.links[i])) => i <= j
       /\ Len(call.shortlist) <= 5
       /\ call.shortlist[1].link_id = call.result.link.LinkID

\* a fix at the same smallest distance from two links, matched against a list
\* that also holds a link without geometry
C6_Witness ==
    /\ call.op = "get_current_link"
    /\ call.result.kind = "link"
    /\ \E i \in 1..Len(call.links) : LinestringErr(call.links[i]) # "ok"
    /\ \E i, j \in ValidIndexes(call.links) :
          /\ i < j
          /\ call.result.link = call.links[i]
          /\ PointDistanceSq(call.lat, call.lon, call.links[i])
               = PointDistanceSq(call.lat, call.lon, call.links[j])

----------------------------------------------------------------------------
(* Properties of the history builder (specification SpecHistory) *)

IsHistoryCall == call.op = "build_speedband_history"

\* the ids in the order the claim gives: inbound neighbours of the target,
\* current link, target link, next links in route order, outbound neighbours
ReadingOrder ==
    call.target_link.inbound_link_ids
    \o <<call.current_link.LinkID, call.target_link.LinkID>>
    \o [i \in 1..Len(call.next_links) |-> call.next_links[i].LinkID]
    \o call.target_link.outbound_link_ids

\* a list of ids with each id kept at its first occurrence only
KeepFirstOccurrences(ids) ==
    FilterSeq(ids, [i \in 1..Len(ids) |-> \A j \in 1..(i - 1) : ids[j] # ids[i]])

FirstOccurrences == KeepFirstOccurrences(ReadingOrder)

\* an id whose observation yields a band
YieldsBand(id) ==
    /\ id \in DOMAIN call.speed_bands
    /\ extract_speedband_from_data(call.speed_bands[id]).k = "num"

\* the bands that the observations of a list of ids yield, in the list's order
BandsOf(ids) ==
    LET yielding == FilterSeq(ids, [i \in 1..Len(ids) |-> YieldsBand(ids[i])])
    IN [i \in 1..Len(yielding) |->
          extract_speedband_from_data(call.speed_bands[yielding[i]]).v]

BandsRead == BandsOf(FirstOccurrences)

\* a list of bands without those equal to the band just before
DropRepeats(bands) ==
    FilterSeq(bands, [i \in 1..Len(bands) |-> i = 1 \/ bands[i] # bands[i - 1]])

BandsKept == DropRepeats(BandsRead)

\* C2: the history has exactly min_history_length elements, all integers
\* (bands 0..8), never fewer and never more.
C2_HistoryHasRequestedLength ==
    IsHistoryCall
    => /\ Len(call.result) = call.min_history_length
       /\ \A i \in 1..Len(call.result) : call.result[i] \in 0..8

\* more bands could be collected than the length asked for
C2_Witness ==
    /\ IsHistoryCall
    /\ Len(BandsKept) > call.min_history_length
    /\ Len(call.result) = call.min_history_length

\* C3: the history is the collected values followed by repetitions of the last
\* collected value; when nothing is collected (as for an empty observation
\* map) every element is 3; one observation of band 6 and length 5 gives
\* <<6, 6, 6, 6, 6>>.
C3_PaddedWithLastValue ==
    IsHistoryCall
    => /\ Len(call.collected) <= Len(call.result)
       /\ \A i \in 1..Len(call.result) :
             call.result[i] = IF call.collected = <<>> THEN 3
                              ELSE call.collected[Min2(i, Len(call.collected))]
       /\ (\A id \in Range(ReadingOrder) : ~YieldsBand(id)) => call.collected = <<>>
       /\ call.speed_bands = <<>> => \A i \in 1..Len(call.result) : call.result[i] = 3
       /\ (/\ call.min_history_length = 5
           /\ \E id \in Range(ReadingOrder) :
                 /\ DOMAIN call.speed_bands = {id}
                 /\ call.speed_bands[id].speedband = Num(6))
          => call.result = <<6, 6, 6, 6, 6>>

\* a history of length 5 padded from two collected values
C3_Witness ==
    /\ IsHistoryCall
    /\ call.min_history_length = 5
    /\ Len(call.collected) = 2
    /\ call.result[5] = call.collected[2]
    /\ call.result[1] # call.result[5]

\* C4: the observations are read in the order inbound neighbours of the
\* target, current link, target link, next links, outbound neighbours, each id
\* at its first occurrence only, and the collected values are the bands read
\* in that order (less the suppressed repetitions, up to the length asked).
C4_ReadInPriorityOrder ==
    IsHistoryCall
    => LET kept == BandsKept
       IN call.collected = SubSeq(kept, 1, Min2(Len(kept), call.min_history_length))

\* an id occurs twice among the candidates and two different bands were
\* collected, the first of them from an inbound neighbour
C4_Witness ==
    /\ IsHistoryCall
    /\ Len(FirstOccurrences) < Len(ReadingOrder)
    /\ Len(call.collected) >= 2
    /\ call.target_link.inbound_link_ids # <<>>
    /\ YieldsBand(call.target_link.inbound_link_ids[1])
    /\ call.current_link.LinkID \notin Range(call.target_link.inbound_link_ids)
    /\ YieldsBand(call.current_link.LinkID)

\* C5: in the collected (unpadded) part no two adjacent elements are equal and
\* it is never longer than min_history_length, so two equal adjacent elements
\* of the history can only come from padding.
C5_NoAdjacentDuplicatesCollected ==
    IsHistoryCall
    => /\ Len(call.collected) <= call.min_history_length
       /\ \A i \in 1..(Len(call.collected) - 1) :
             call.collected[i] # call.collected[i + 1]
       /\ \A i \in 1..(Len(call.result) - 1) :
             (call.result[i] = call.result[i + 1]) => i + 1 > Len(call.collected)

\* a band equal to the one read just before it was dropped, and collecting
\* went on after it
C5_Witness ==
    /\ IsHistoryCall
    /\ \E i \in 2..(Len(BandsRead) - 1) :
          /\ BandsRead[i] = BandsRead[i - 1]
          /\ BandsRead[i + 1] # BandsRead[i]
    /\ Len(call.collected) = 2
    /\ call.min_history_length > 2

----------------------------------------------------------------------------
(* Properties of the recommendation (specification SpecRecommend) *)

\* C9: whenever the current link speed is fast (>= 50 km/h) and the predicted
\* speed is slow (<= 30 km/h), the action is coast with colour cue yellow, and
\* the urgency is high if has_rain or has_incident and medium otherwise.
C9_FastThenSlowCoasts ==
    (/\ call.op = "generate_recommendation"
     /\ call.result.current_speed2 >= 2 * 50
     /\ call.predicted_speed <= 30)
    => /\ call.result.action = "coast"
       /\ call.result.color_cue = "yellow"
       /\ call.result.urgency = IF call.has_rain \/ call.has_incident
                                THEN "high" ELSE "medium"

----------------------------------------------------------------------------
(* Concurrent requests through route_service.get_route_links.  The handlers *)
(* are plain `def` endpoints, which the server runs on worker threads; a    *)
(* thread can be preempted between any two statements of get_route_links.   *)
(* In this specification call holds the frames of the requests in flight.   *)

NumRequests == 2      \* requests in flight at once

Requests == 1..NumRequests

\* catalogs of usable records only
ForwardCatalogs ==
    { [i \in 1..NumLinks |-> [LinkID |-> IdOf(i)] @@ f[i]] :
        f \in [1..NumLinks -> {Shape(0, 10), Shape(10, 20)}] }

Frame(r) == call.frames[r]

\* a handler calls get_route_links(bus_no, direction)
RequestStart(r) ==
    /\ Frame(r).pc = "idle"
    /\ \E service_no \in ServiceNos, direction \in Directions :
         call' = [call EXCEPT !.frames[r] =
                    [pc |-> "has", service_no |-> service_no, direction |-> direction]]
    /\ UNCHANGED <<all_links, route_cache>>

\* `if route_cache.has(...): return route_cache.get(...)`
CheckCache(r) ==
    /\ Frame(r).pc = "has"
    /\ LET f == Frame(r)
       IN call' = [call EXCEPT !.frames[r] =
                     IF RouteCache_has(route_cache, f.service_no, f.direction)
                     THEN [pc |-> "done", service_no |-> f.service_no,
                           direction |-> f.direction,
                           result |-> RouteCache_get(route_cache, f.service_no,
                                                     f.direction)]
                     ELSE [pc |-> "process_route", service_no |-> f.service_no,
                           direction |-> f.direction]]
    /\ UNCHANGED <<all_links, route_cache>>

\* the call of process_route returns; the dict it built is a new object, told
\* apart from equal dicts by the request that built it
RunProcessRoute(r) ==
    /\ Frame(r).pc = "process_route"
    /\ \E stops \in Upstreams, f \in {Frame(r)} :
         \E built \in {process_route(f.service_no, f.direction, stops,
                                     all_links, ROUTE_BUFFER_METERS)} :
            call' = [call EXCEPT !.frames[r] =
                       [pc |-> "set", service_no |-> f.service_no,
                        direction |-> f.direction,
                        route_data |-> IF built.kind = "graph"
                                       THEN [built_by |-> r] @@ built ELSE built]]
    /\ UNCHANGED <<all_links, route_cache>>

\* `if route_data: route_cache.set(...)` and `return route_data`
StoreResult(r) ==
    /\ Frame(r).pc = "set"
    /\ LET f == Frame(r)
       IN /\ route_cache' = IF f.route_data.kind = "graph"
                            THEN RouteCache_set(route_cache, f.service_no,
                                                f.direction, f.route_data)
                            ELSE route_cache
          /\ call' = [call EXCEPT !.frames[r] =
                        [pc |-> "done", service_no |-> f.service_no,
                         direction |-> f.direction, result |-> f.route_data]]
    /\ UNCHANGED all_links

InitConcurrent ==
    /\ all_links \in ForwardCatalogs
    /\ route_cache = <<>>
    /\ call = [op |-> "requests", frames |-> [r \in Requests |-> [pc |-> "idle"]]]

NextConcurrent ==
    \E r \in Requests :
        \/ RequestStart(r)
        \/ CheckCache(r)
        \/ RunProcessRoute(r)
        \/ StoreResult(r)

SpecConcurrent == InitConcurrent /\ [][NextConcurrent]_vars

----------------------------------------------------------------------------
(* Properties of concurrent requests (specification SpecConcurrent) *)

\* C11: when several requests for the same uncached (service_no, direction)
\* run concurrently, process_route is never running for that key in two of
\* them at once, and the requests that end with a graph hold the same graph
\* object.
C11_ConstructionIsSerialized ==
    call.op = "requests"
    => \A p \in {q \in Requests \X Requests :
                    /\ q[1] # q[2]
                    /\ Frame(q[1]).pc # "idle" /\ Frame(q[2]).pc # "idle"
                    /\ Frame(q[1]).service_no = Frame(q[2]).service_no
                    /\ Frame(q[1]).direction = Frame(q[2]).direction} :
          /\ ~(Frame(p[1]).pc = "process_route" /\ Frame(p[2]).pc = "process_route")
          /\ (/\ Frame(p[1]).pc = "done" /\ Frame(p[1]).result.kind = "graph"
              /\ Frame(p[2]).pc = "done" /\ Frame(p[2]).result.kind = "graph")
             => Frame(p[1]).result.built_by = Frame(p[2]).result.built_by

----------------------------------------------------------------------------
(* The request handlers of main.py.  A handler is one action: it resolves   *)
(* the route, locates the bus, gathers the live feeds and builds the        *)
(* response.  What the feeds and the predictor answer is an input.          *)

\* dict.get(key): the value, or None when the key is missing
DictGet(dict, key) == IF key \in DOMAIN dict THEN dict[key] ELSE Null

\* CHOOSE out \in {e : x \in {v}} : TRUE is e with v bound to x (v is
\* evaluated once, as the local variable of the code is assigned once).
\* get_route_links as a function of the cache and of what the feeds return
get_route_links(cache, links, service_no, direction, stops) ==
    IF RouteCache_has(cache, service_no, direction)
    THEN [cache |-> cache, ran_process_route |-> FALSE,
          result |-> RouteCache_get(cache, service_no, direction)]
    ELSE CHOOSE out \in
           { [cache |-> IF route_data.kind = "graph"
                        THEN RouteCache_set(cache, service_no, direction, route_data)
                        ELSE cache,
              ran_process_route |-> TRUE,
              result |-> route_data] :
             route_data \in {process_route(service_no, direction, stops, links,
                                           ROUTE_BUFFER_METERS)} } : TRUE

HTTPException(status_code, detail) == [status |-> status_code, detail |-> detail]

RECURSIVE NextLinksFrom_FromCurrent(_, _, _, _, _)
\* a loop that starts one position early and so collects the current link
NextLinksFrom_FromCurrent(next_links, i, num_future_links, current_order, ordered_links) ==
    IF i > num_future_links THEN next_links
    ELSE IF current_order + i - 1 < Len(ordered_links)
         THEN NextLinksFrom_FromCurrent(
                  Append(next_links, ordered_links[current_order + i]),
                  i + 1, num_future_links, current_order, ordered_links)
         ELSE NextLinksFrom_FromCurrent(next_links, i + 1, num_future_links,
                                        current_order, ordered_links)

RECURSIVE NextLinksFrom(_, _, _, _, _)
\* for i in range(1, NUM_FUTURE_LINKS + 1): ordered_links[current_order + i]
\* when that index exists
NextLinksFrom(next_links, i, num_future_links, current_order, ordered_links) ==
    IF i > num_future_links THEN next_links
    ELSE IF current_order + i < Len(ordered_links)
         THEN NextLinksFrom(Append(next_links, ordered_links[current_order + i + 1]),
                            i + 1, num_future_links, current_order, ordered_links)
         ELSE NextLinksFrom(next_links, i + 1, num_future_links, current_order,
                            ordered_links)

\* the steps every GPS handler starts with: route, current link, analysis
\* window, next links; an HTTPException or the handler's locals
Locate(got, lat, lon) ==
    LET route_data == got.result
        found == get_current_link(lat, lon, route_data.ordered_links)
    IN IF route_data.kind = "raise"
       THEN HTTPException(500, "Internal server error")
       ELSE IF route_data.kind = "none"
       THEN HTTPException(404, "Route not found")
       ELSE IF route_data.ordered_links = <<>>
       THEN HTTPException(404, "No links found")
       ELSE IF found.kind = "none"
       THEN HTTPException(404, "Could not find current link")
       ELSE [status |-> 200,
             route_data |-> route_data,
             current_link |-> found.link,
             links_for_analysis |-> get_links_for_analysis(found.link, route_data,
                                                           NUM_FUTURE_LINKS),
             next_links |-> NextLinksFrom(<<>>, 1, NUM_FUTURE_LINKS, found.link.order,
                                          route_data.ordered_links)]

\* fetch_speed_bands_for_links: the entries of the feed for the ids asked for
fetch_speed_bands_for_links(link_ids, feed) ==
    [id \in (DOMAIN feed) \cap link_ids |-> feed[id]]

(* Dict objects.  A cached node is one object, shared by ordered_links and   *)
(* link_index; a reference is either such a node or a dict made during the  *)
(* request, which only the name it is bound to refers to.                   *)

CachedNode(key, id) == [place |-> "cache", key |-> key, id |-> id]

Deref(cache, ref) ==
    IF ref.place = "cache" THEN cache[ref.key].link_index[ref.id] ELSE ref.items

\* an assignment where the code copies: the new name is the same object
dict_copy_Alias(cache, ref) == ref

\* dict.copy(): a new dict with the same items
dict_copy(cache, ref) == [place |-> "local", items |-> Deref(cache, ref)]

\* ref[k] = v for every item k: v of items; the cache and the reference after
SetItems(cache, ref, items) ==
    IF ref.place = "local"
    THEN [cache |-> cache, ref |-> [place |-> "local", items |-> items @@ ref.items]]
    ELSE LET graph == cache[ref.key]
             node == items @@ graph.link_index[ref.id]
         IN [cache |-> [cache EXCEPT ![ref.key] =
                          [graph EXCEPT
                             !.link_index[ref.id] = node,
                             !.ordered_links =
                                 [i \in 1..Len(graph.ordered_links) |->
                                    IF graph.ordered_links[i].LinkID = ref.id
                                    THEN node ELSE graph.ordered_links[i]]]],
             ref |-> ref]

\* x = link.copy(); if id in speed_bands: x['SpeedBand'] = ... (three fields)
Enhance(cache, ref, speed_bands) ==
    CHOOSE out \in
      { (IF Deref(cache, ref).LinkID \in DOMAIN speed_bands
         THEN SetItems(cache, copied,
                       [f \in {"SpeedBand", "MinimumSpeed", "MaximumSpeed"} |->
                           DictGet(speed_bands[Deref(cache, ref).LinkID], f)])
         ELSE [cache |-> cache, ref |-> copied]) :
        copied \in {dict_copy(cache, ref)} } : TRUE

RECURSIVE EnhanceAll(_, _, _, _)
\* the enhanced copies of a list of links, in order
EnhanceAll(cache, refs, speed_bands, done) ==
    IF refs = <<>> THEN [cache |-> cache, refs |-> done]
    ELSE CHOOSE out \in
           { EnhanceAll(e.cache, Tail(refs), speed_bands, Append(done, e.ref)) :
             e \in {Enhance(cache, Head(refs), speed_bands)} } : TRUE

RECURSIVE EnhanceNext(_, _, _, _, _)
\* the enhanced copies of the next links, each with its predicted_speed
EnhanceNext(cache, refs, speed_bands, predicted, done) ==
    IF refs = <<>> THEN [cache |-> cache, refs |-> done]
    ELSE CHOOSE out \in
           { (CHOOSE rest \in
                { EnhanceNext(p.cache, Tail(refs), speed_bands, predicted,
                              Append(done, p.ref)) :
                  p \in {SetItems(e.cache, e.ref,
                                  [predicted_speed |-> predicted[Len(done) + 1]])} } :
                TRUE) :
             e \in {Enhance(cache, Head(refs), speed_bands)} } : TRUE

\* link_index[id] for the ids present in the link index, in order
NeighbourRefs(key, ids, link_index) ==
    LET present == FilterSeq(ids, [i \in 1..Len(ids) |-> ids[i] \in DOMAIN link_index])
    IN [i \in 1..Len(present) |-> CachedNode(key, present[i])]

NodeRefs(key, nodes) == [i \in 1..Len(nodes) |-> CachedNode(key, nodes[i].LinkID)]

DerefAll(cache, refs) == [i \in 1..Len(refs) |-> Deref(cache, refs[i])]

\* inputs of the handlers
HandlerCatalogs ==
    { [i \in 1..NumLinks |-> [LinkID |-> IdOf(i)] @@ f[i]] :
        f \in [1..NumLinks -> { Shape(0, 10), Shape(10, 20),
                                [Shape(0, 10) EXCEPT !.StartLat = Null],
                                [Shape(0, 10) EXCEPT !.StartLon = Text] }] }

HandlerLons == {5, 13}

\* what the speed-band feed holds: the first link only, or every link
SpeedBandFeeds ==
    { [id \in D |-> Obs(Num(6), 60, 69)] :
        D \in { {IdOf(1)}, {IdOf(i) : i \in 1..NumLinks} } }

\* what the rain and incident checks answer: <<has_rain, has_incident>>
Conditions == {<<FALSE, FALSE>>, <<TRUE, FALSE>>, <<FALSE, TRUE>>}

\* what predict_speed answers
Predictions == {25, 65}

\* what predict_speed answers for each of the next links of map_data
PredictionLists ==
    { [i \in 1..NUM_FUTURE_LINKS |-> IF i % 2 = 1 THEN p[1] ELSE p[2]] :
        p \in {<<25, 65>>, <<65, 25>>} }

\* the response of coasting_recommendation (step 10) and the cache it leaves
CoastingResponse(cache, key, loc, speed_bands, predicted_speed, has_rain, has_incident) ==
    CHOOSE out \in
     {(CHOOSE r2 \in
       {(CHOOSE r3 \in
         {(CHOOSE r4 \in
           { [cache |-> outbound.cache,
              body |-> generate_recommendation(loc.current_link, predicted_speed,
                                               speed_bands, has_rain, has_incident) @@
                       [current_link |-> Deref(outbound.cache, current.ref),
                        next_link |-> IF next.refs = <<>> THEN Null
                                      ELSE Deref(outbound.cache, next.refs[1]),
                        inbound_links |-> DerefAll(outbound.cache, inbound.refs),
                        outbound_links |-> DerefAll(outbound.cache, outbound.refs)]] :
             outbound \in
               {EnhanceAll(inbound.cache,
                           NeighbourRefs(key, loc.current_link.outbound_link_ids,
                                         loc.route_data.link_index),
                           speed_bands, <<>>)} } : TRUE) :
          inbound \in
            {EnhanceAll(next.cache,
                        NeighbourRefs(key, loc.current_link.inbound_link_ids,
                                      loc.route_data.link_index),
                        speed_bands, <<>>)} } : TRUE) :
        next \in
          {EnhanceNext(current.cache,
                       NodeRefs(key, IF loc.next_links = <<>> THEN <<>>
                                     ELSE <<loc.next_links[1]>>),
                       speed_bands, <<predicted_speed>>, <<>>)} } : TRUE) :
      current \in
        {Enhance(cache, CachedNode(key, loc.current_link.LinkID), speed_bands)} } : TRUE

\* the response of map_data (steps 8 to 13) and the cache it leaves
MapDataResponse(cache, key, loc, speed_bands, predicted, has_rain, has_incident, fix) ==
    CHOOSE out \in
     {(CHOOSE r2 \in
       {(CHOOSE r3 \in
         {(CHOOSE r4 \in
           {(CHOOSE r5 \in
             { [cache |-> next.cache,
                body |-> [bus_no |-> loc.route_data.ServiceNo,
                          direction |-> loc.route_data.Direction,
                          route_geometry |-> DerefAll(next.cache, route_geometry.refs),
                          current_link |-> Deref(next.cache, current.ref),
                          next_links |-> DerefAll(next.cache, next.refs),
                          inbound_links |-> DerefAll(next.cache, inbound.refs),
                          outbound_links |-> DerefAll(next.cache, outbound.refs),
                          speed_bands |-> speed_bands,
                          has_rain |-> has_rain,
                          has_incident |-> has_incident,
                          predicted_speeds |->
                              [i \in 1..Len(loc.next_links) |->
                                 [LinkID |-> loc.next_links[i].LinkID,
                                  predicted_speed |-> predicted[i],
                                  order |-> loc.next_links[i].order]]]] :
               next \in
                 {EnhanceNext(current.cache, NodeRefs(key, loc.next_links),
                              speed_bands, predicted, <<>>)} } : TRUE) :
            current \in
              {Enhance(route_geometry.cache,
                       CachedNode(key, loc.current_link.LinkID), speed_bands)} } : TRUE) :
          route_geometry \in
            {EnhanceAll(outbound.cache, NodeRefs(key, loc.route_data.ordered_links),
                        speed_bands, <<>>)} } : TRUE) :
        outbound \in
          {EnhanceAll(inbound.cache,
                      NeighbourRefs(key, loc.current_link.outbound_link_ids,
                                    loc.route_data.link_index),
                      speed_bands, <<>>)} } : TRUE) :
      inbound \in
        {EnhanceAll(cache,
                    NeighbourRefs(key, loc.current_link.inbound_link_ids,
                                  loc.route_data.link_index),
                    speed_bands, <<>>)} } : TRUE

\* the record of a handled request
Handled(op, bus_no, direction, fix, stops, got, loc, response) ==
    [op |-> op, bus_no |-> bus_no, direction |-> direction, fix |-> fix,
     stops |-> stops, ran_process_route |-> got.ran_process_route,
     built |-> got.result.kind, locals |-> loc, response |-> response]

\* GET /route_geometry
GetRouteGeometry ==
    /\ call = NoCall
    /\ \E bus_no \in ServiceNos, direction \in Directions, stops \in Upstreams :
         \E got \in {get_route_links(route_cache, all_links, bus_no, direction, stops)} :
            LET route_data == got.result
                loc == IF route_data.kind = "raise"
                       THEN HTTPException(500, "Internal server error")
                       ELSE IF route_data.kind = "none"
                       THEN HTTPException(404, "Route not found")
                       ELSE IF route_data.ordered_links = <<>>
                       THEN HTTPException(404, "No links found")
                       ELSE [status |-> 200, route_data |-> route_data]
            IN /\ (~got.ran_process_route => stops = <<>>)
               /\ call' = Handled("get_route_geometry", bus_no, direction, Null, stops,
                                  got, loc,
                                  IF loc.status # 200 THEN loc
                                  ELSE [status |-> 200,
                                        body |-> [bus_no |-> bus_no,
                                                  direction |-> direction,
                                                  total_links |-> Len(route_data.ordered_links),
                                                  ordered_links |-> route_data.ordered_links]])
               /\ route_cache' = got.cache
    /\ UNCHANGED all_links

\* GET /realtime_stats
GetRealtimeStats ==
    /\ call = NoCall
    /\ \E bus_no \in ServiceNos, direction \in Directions, stops \in Upstreams :
         \E got \in {get_route_links(route_cache, all_links, bus_no, direction, stops)} :
            /\ (~got.ran_process_route => stops = <<>>)
            /\ \E lon \in HandlerLons :
               \E fix \in {[lat |-> 0, lon |-> lon]}, loc \in {Locate(got, 0, lon)} :
                    IF loc.status # 200
                    THEN /\ call' = Handled("get_realtime_stats", bus_no, direction,
                                            fix, stops, got, loc, loc)
                         /\ route_cache' = got.cache
                    ELSE \E feed \in SpeedBandFeeds, predicted_speed \in Predictions,
                            weather \in Conditions :
                           LET has_rain == weather[1]
                               has_incident == weather[2]
                               fetched == fetch_speed_bands_for_links(
                                              IdsOf(loc.links_for_analysis), feed)
                               target_link == IF loc.next_links # <<>>
                                              THEN loc.next_links[1]
                                              ELSE loc.current_link
                               \* the ids whose observations feed the model history
                               speed_bands == fetch_speed_bands_for_links(
                                   (Range(target_link.inbound_link_ids)
                                    \cup Range(target_link.outbound_link_ids)
                                    \cup {loc.current_link.LinkID, target_link.LinkID}
                                    \cup {loc.next_links[i].LinkID :
                                            i \in 1..Len(loc.next_links)}) \ {""},
                                   fetched)
                           IN /\ call' = Handled("get_realtime_stats", bus_no, direction,
                                                 fix, stops, got, loc,
                                                 [status |-> 200,
                                                  body |-> [current_link |-> loc.current_link,
                                                            speed_bands |-> speed_bands,
                                                            has_rain |-> has_rain,
                                                            has_incident |-> has_incident,
                                                            predicted_speed |-> predicted_speed]])
                              /\ route_cache' = got.cache
    /\ UNCHANGED all_links

\* GET /coasting_recommendation
GetCoastingRecommendation ==
    /\ call = NoCall
    /\ \E bus_no \in ServiceNos, direction \in Directions, stops \in Upstreams :
         \E got \in {get_route_links(route_cache, all_links, bus_no, direction, stops)} :
            /\ (~got.ran_process_route => stops = <<>>)
            /\ \E lon \in HandlerLons :
               \E fix \in {[lat |-> 0, lon |-> lon]}, loc \in {Locate(got, 0, lon)} :
                    IF loc.status # 200
                    THEN /\ call' = Handled("get_coasting_recommendation", bus_no,
                                            direction, fix, stops, got, loc, loc)
                         /\ route_cache' = got.cache
                    ELSE \E feed \in SpeedBandFeeds, predicted_speed \in Predictions,
                            weather \in Conditions :
                           \E speed_bands \in {fetch_speed_bands_for_links(
                                                   IdsOf(loc.links_for_analysis), feed)} :
                           \E made \in {CoastingResponse(
                                             got.cache, CacheKey(bus_no, direction), loc,
                                             speed_bands,
                                             predicted_speed, weather[1], weather[2])} :
                              /\ call' = Handled("get_coasting_recommendation", bus_no,
                                                 direction, fix, stops, got,
                                                 loc @@ [speed_bands |-> speed_bands],
                                                 [status |-> 200, body |-> made.body])
                              /\ route_cache' = made.cache
    /\ UNCHANGED all_links

\* GET /map_data
GetMapData ==
    /\ call = NoCall
    /\ \E bus_no \in ServiceNos, direction \in Directions, stops \in Upstreams :
         \E got \in {get_route_links(route_cache, all_links, bus_no, direction, stops)} :
            /\ (~got.ran_process_route => stops = <<>>)
            /\ \E lon \in HandlerLons :
               \E fix \in {[lat |-> 0, lon |-> lon]}, loc \in {Locate(got, 0, lon)} :
                    IF loc.status # 200
                    THEN /\ call' = Handled("get_map_data", bus_no, direction,
                                            fix, stops, got, loc, loc)
                         /\ route_cache' = got.cache
                    ELSE \E feed \in SpeedBandFeeds, predicted \in PredictionLists,
                            weather \in Conditions :
                           \E made \in {MapDataResponse(
                                             got.cache, CacheKey(bus_no, direction), loc,
                                             fetch_speed_bands_for_links(
                                                 IdsOf(loc.links_for_analysis)
                                                 \cup IdsOf(loc.route_data.ordered_links),
                                                 feed),
                                             predicted, weather[1], weather[2], fix)} :
                              /\ call' = Handled("get_map_data", bus_no, direction,
                                                 fix, stops, got, loc,
                                                 [status |-> 200, body |-> made.body])
                              /\ route_cache' = made.cache
    /\ UNCHANGED all_links

\* One request on a cache that is empty or holds the route of one key
InitHandler ==
    /\ all_links \in HandlerCatalogs
    /\ \/ route_cache = <<>>
       \/ \E service_no \in ServiceNos, direction \in Directions, stops \in Upstreams :
            \E route_data \in {process_route(service_no, direction, stops,
                                              all_links, ROUTE_BUFFER_METERS)} :
               /\ route_data.kind = "graph"
               /\ route_cache = RouteCache_set(<<>>, service_no, direction, route_data)
    /\ call = NoCall

NextHandler ==
    \/ GetRouteGeometry
    \/ GetRealtimeStats
    \/ GetCoastingRecommendation
    \/ GetMapData

SpecHandler == InitHandler /\ [][NextHandler]_vars

----------------------------------------------------------------------------
(* Properties of the request handlers (specification SpecHandler) *)

HandlerOps == {"get_route_geometry", "get_realtime_stats",
               "get_coasting_recommendation", "get_map_data"}

\* C12: no request changes a cached graph or the catalog: every graph cached
\* before the request is cached unchanged after it, the graph the request
\* worked on is in the cache exactly as get_route_links returned it, its nodes
\* carry none of the enrichment fields (SpeedBand, MinimumSpeed, MaximumSpeed,
\* predicted_speed), which are written to the copies of the response only, and
\* the catalog records are as they were.
C12_RequestsLeaveGraphAndCatalogUnchanged ==
    [][/\ all_links' = all_links
       /\ \A k \in DOMAIN route_cache :
             k \in DOMAIN route_cache' /\ route_cache'[k] = route_cache[k]
       /\ (call'.op \in HandlerOps /\ call'.response.status = 200)
          => LET key == CacheKey(call'.bus_no, call'.direction)
             IN /\ key \in DOMAIN route_cache'
                /\ route_cache'[key] = call'.locals.route_data
                /\ \A node \in Range(route_cache'[key].ordered_links)
                                \cup {route_cache'[key].link_index[id] :
                                         id \in DOMAIN route_cache'[key].link_index} :
                      {"SpeedBand", "MinimumSpeed", "MaximumSpeed", "predicted_speed"}
                         \cap DOMAIN node = {}]_vars

\* a coasting recommendation or a map answered from a graph cached before the
\* request, whose current link, next link and an inbound link were all given
\* speed fields, the next link a predicted speed too
C12_Witness ==
    /\ call.op \in {"get_coasting_recommendation", "get_map_data"}
    /\ call.response.status = 200
    /\ ~call.ran_process_route
    /\ "SpeedBand" \in DOMAIN call.response.body.current_link
    /\ call.response.body.inbound_links # <<>>
    /\ \A i \in 1..Len(call.response.body.inbound_links) :
          "MaximumSpeed" \in DOMAIN call.response.body.inbound_links[i]
    /\ call.locals.next_links # <<>>
    /\ IF call.op = "get_map_data"
       THEN "predicted_speed" \in DOMAIN call.response.body.next_links[1]
       ELSE "predicted_speed" \in DOMAIN call.response.body.next_link

----------------------------------------------------------------------------
(* Weather stations and incidents near a link: predictor_service and        *)
(* incident_service on the live path, correlate_traffic_data offline.       *)
(* Every point lies on the parallel lat = 0; distances are in metres.       *)

RAINFALL_RADIUS_METERS == 50
\* distance_threshold_km = 0.1 of link_has_incident, in metres
distance_threshold_m == 100

MaxStations == 2       \* weather stations in the rainfall feed
MaxIncidents == 2      \* incidents in the incident feed

\* twice the haversine distance between a doubled longitude and a longitude
Distance2(lon2, lon) == Abs(lon2 - 2 * lon)

\* float(link.get('StartLat') or link.get('start_lat', 0)): a missing, null
\* or zero value reads as 0; a string that is not a number raises ValueError
PredictorCoord(c) ==
    CASE c.k = "num" -> [err |-> "ok", v |-> c.v]
      [] c.k \in {"absent", "null"} -> [err |-> "ok", v |-> 0]
      [] OTHER -> [err |-> "ValueError", v |-> 0]

\* predictor_service.get_link_midpoint: the doubled midpoint, or None when a
\* coordinate does not convert or all four coordinates are zero
predictor_get_link_midpoint(link) ==
    IF \E f \in {"StartLat", "StartLon", "EndLat", "EndLon"} :
          PredictorCoord(link[f]).err # "ok"
    THEN [kind |-> "none"]
    ELSE IF \A f \in {"StartLat", "StartLon", "EndLat", "EndLon"} :
               PredictorCoord(link[f]).v = 0
         THEN [kind |-> "none"]
         ELSE [kind |-> "point",
               lat2 |-> PredictorCoord(link.StartLat).v + PredictorCoord(link.EndLat).v,
               lon2 |-> PredictorCoord(link.StartLon).v + PredictorCoord(link.EndLon).v]

\* incident_service.get_link_midpoint: float(link['StartLat']) and so on;
\* ValueError and KeyError give None, a TypeError escapes
incident_get_link_midpoint(link) ==
    IF LinestringErr(link) = "ok"
    THEN [kind |-> "point", lat2 |-> link.StartLat.v + link.EndLat.v,
          lon2 |-> link.StartLon.v + link.EndLon.v]
    ELSE IF Caught(LinestringErr(link)) THEN [kind |-> "none"]
         ELSE [kind |-> "raise"]

RECURSIVE RainfallFrom(_, _, _, _, _, _, _)
\* the loop over the readings; min_distance2 < 0 stands for float('inf')
RainfallFrom(readings, i, stations_map, lon2, radius_meters, nearest_rainfall, min_distance2) ==
    IF i > Len(readings) THEN nearest_rainfall
    ELSE IF \/ readings[i].station_id = ""
            \/ readings[i].value <= 0
            \/ readings[i].station_id \notin DOMAIN stations_map
         THEN RainfallFrom(readings, i + 1, stations_map, lon2, radius_meters,
                           nearest_rainfall, min_distance2)
         ELSE IF /\ Distance2(lon2, stations_map[readings[i].station_id])
                       <= 2 * radius_meters
                 /\ \/ min_distance2 < 0
                    \/ Distance2(lon2, stations_map[readings[i].station_id])
                          < min_distance2
              THEN RainfallFrom(readings, i + 1, stations_map, lon2, radius_meters,
                                readings[i].value,
                                Distance2(lon2, stations_map[readings[i].station_id]))
              ELSE RainfallFrom(readings, i + 1, stations_map, lon2, radius_meters,
                                nearest_rainfall, min_distance2)

\* predictor_service.get_rainfall_for_link; stations_map takes a station id
\* to its longitude, a later entry replacing an earlier
get_rainfall_for_link(link, rainfall_data, radius_meters) ==
    IF rainfall_data.readings = <<>> THEN 0
    ELSE IF predictor_get_link_midpoint(link).kind = "none" THEN 0
         ELSE RainfallFrom(rainfall_data.readings, 1,
                           [id \in {rainfall_data.stations[i].id :
                                      i \in 1..Len(rainfall_data.stations)} \ {""} |->
                              rainfall_data.stations[
                                 CHOOSE i \in 1..Len(rainfall_data.stations) :
                                    /\ rainfall_data.stations[i].id = id
                                    /\ \A j \in (i + 1)..Len(rainfall_data.stations) :
                                          rainfall_data.stations[j].id # id].lon],
                           predictor_get_link_midpoint(link).lon2,
                           radius_meters, 0, -1)

\* the readings dict of the offline loader: station id -> value
ReadingsDict(readings) ==
    [sid \in {readings[i].station_id : i \in 1..Len(readings)} |->
        readings[CHOOSE i \in 1..Len(readings) :
                    /\ readings[i].station_id = sid
                    /\ \A j \in (i + 1)..Len(readings) :
                          readings[j].station_id # sid].value]

RECURSIVE NearestFrom(_, _, _, _, _, _)
\* the loop over stations.items(); best_sid "" stands for None and
\* best_dist2 < 0 for float("inf")
NearestFrom(stations, i, readings, lon2, best_sid, best_dist2) ==
    IF i > Len(stations) THEN best_sid
    ELSE IF stations[i].id \notin DOMAIN readings
         THEN NearestFrom(stations, i + 1, readings, lon2, best_sid, best_dist2)
         ELSE IF best_dist2 < 0 \/ Distance2(lon2, stations[i].lon) < best_dist2
              THEN NearestFrom(stations, i + 1, readings, lon2, stations[i].id,
                               Distance2(lon2, stations[i].lon))
              ELSE NearestFrom(stations, i + 1, readings, lon2, best_sid, best_dist2)

\* correlate_traffic_data.find_nearest_station_rainfall
find_nearest_station_rainfall(link_geom, stations, readings) ==
    IF stations = <<>> \/ DOMAIN readings = {} THEN 0
    ELSE CHOOSE out \in
           { (IF best_sid = "" THEN 0 ELSE readings[best_sid]) :
             best_sid \in {NearestFrom(stations, 1, readings,
                                       link_geom.StartLon.v + link_geom.EndLon.v,
                                       "", -1)} } : TRUE

\* str.lower() on a string given as its sequence of characters
Lower(text) ==
    [i \in 1..Len(text) |->
        CASE text[i] = "A" -> "a" [] text[i] = "B" -> "b" [] OTHER -> text[i]]

\* `rn in msg`: rn occurs in msg as a contiguous run of characters
IsSubstring(rn, msg) ==
    \E i \in 1..(Len(msg) - Len(rn) + 1) : SubSeq(msg, i, i + Len(rn) - 1) = rn

\* point_to_segment_distance_km, in metres: the distance to the point itself
\* when the segment is a point, else to the projection clamped to the segment
point_to_segment_distance(lon, lon1, lon2) ==
    IF lon2 - lon1 = 0 THEN Abs(lon - lon1)
    ELSE Abs(lon - Clamp(lon, Min2(lon1, lon2), Max2(lon1, lon2)))

\* correlate_traffic_data.link_has_incident
link_has_incident(link_geom, road_name, incidents, threshold_m) ==
    IF /\ Lower(road_name) # <<>>
       /\ \E i \in 1..Len(incidents) :
             IsSubstring(Lower(road_name), Lower(incidents[i].Message))
    THEN TRUE
    ELSE IF incidents = <<>> THEN FALSE
         ELSE \E i \in 1..Len(incidents) :
                 point_to_segment_distance(incidents[i].Longitude,
                                           link_geom.StartLon.v, link_geom.EndLon.v)
                    <= threshold_m

RECURSIVE CheckIncidentsFrom(_, _, _)
\* the loop over the links: the links are visited in order, the first one
\* with an incident near its midpoint ends the scan
CheckIncidentsFrom(links, i, incidents) ==
    IF i > Len(links) THEN [kind |-> "value", value |-> FALSE]
    ELSE CHOOSE out \in
           { (IF link_midpoint.kind = "raise" THEN [kind |-> "raise"]
              ELSE IF link_midpoint.kind = "none"
                   THEN CheckIncidentsFrom(links, i + 1, incidents)
                   ELSE IF \E j \in 1..Len(incidents) :
                              Distance2(link_midpoint.lon2, incidents[j].Longitude)
                                 <= 2 * RAINFALL_RADIUS_METERS
                        THEN [kind |-> "value", value |-> TRUE]
                        ELSE CheckIncidentsFrom(links, i + 1, incidents)) :
             link_midpoint \in {incident_get_link_midpoint(links[i])} } : TRUE

\* incident_service.check_incidents_in_links
check_incidents_in_links(links, incidents) ==
    IF incidents = <<>> THEN [kind |-> "value", value |-> FALSE]
    ELSE CheckIncidentsFrom(links, 1, incidents)

\* link catalogs of one record: a short link, a long link, a record whose
\* coordinates are all zero
ProximityCatalogs ==
    {<<[LinkID |-> IdOf(1)] @@ s>> : s \in {Shape(0, 10), Shape(0, 200), Shape(0, 0)}}

\* what the rainfall feed holds: up to MaxStations stations S1, S2, ... and
\* the latest reading (0, 5 or 8 mm) of those that reported one; -1 marks a
\* station without a reading
RainfallFeeds ==
    UNION {{[stations |-> [i \in 1..n |-> [id |-> "S" \o ToString(i), lon |-> lons[i]]],
             readings |-> FilterSeq([i \in 1..n |->
                                        [station_id |-> "S" \o ToString(i),
                                         value |-> vals[i]]],
                                    [i \in 1..n |-> vals[i] # -1])] :
              lons \in [1..n -> {15, 45, 55, 60, 1005}],
              vals \in [1..n -> {-1, 0, 5, 8}]} :
           n \in 0..MaxStations}

RoadNames == {<<>>, <<"A", "b">>, <<"c", "e">>}

\* what the incident feed holds: up to MaxIncidents located incidents
IncidentFeeds ==
    UNION {[1..n -> [Longitude : {0, 55, 80, 300},
                     Message : {<<>>, <<"x", "A", "B">>, <<"c", "d">>}]] :
           n \in 0..MaxIncidents}

\* GET rainfall for one link on the live path (predict_speed, line 359)
GetRainfallForLink ==
    /\ call = NoCall
    /\ \E rainfall_data \in RainfallFeeds :
          call' = [op |-> "get_rainfall_for_link",
                   link |-> all_links[1],
                   stations |-> rainfall_data.stations,
                   readings |-> rainfall_data.readings,
                   result |-> get_rainfall_for_link(all_links[1], rainfall_data,
                                                    RAINFALL_RADIUS_METERS)]
    /\ UNCHANGED <<all_links, route_cache>>

\* the offline correlation of one link with the rainfall snapshot
FindNearestStationRainfall ==
    /\ call = NoCall
    /\ \E rainfall_data \in RainfallFeeds :
          call' = [op |-> "find_nearest_station_rainfall",
                   link |-> all_links[1],
                   stations |-> rainfall_data.stations,
                   readings |-> rainfall_data.readings,
                   result |-> find_nearest_station_rainfall(
                                  all_links[1], rainfall_data.stations,
                                  ReadingsDict(rainfall_data.readings))]
    /\ UNCHANGED <<all_links, route_cache>>

\* the live incident check of the handlers, for one link with a road name
CheckIncidentsInLinks ==
    /\ call = NoCall
    /\ \E road_name \in RoadNames, incidents \in IncidentFeeds :
          call' = [op |-> "check_incidents_in_links",
                   link |-> all_links[1],
                   road_name |-> road_name,
                   incidents |-> incidents,
                   result |-> check_incidents_in_links(
                                  <<[RoadName |-> road_name] @@ all_links[1]>>,
                                  incidents)]
    /\ UNCHANGED <<all_links, route_cache>>

\* the offline correlation of one link with the incident snapshot
LinkHasIncident ==
    /\ call = NoCall
    /\ \E road_name \in RoadNames, incidents \in IncidentFeeds :
          call' = [op |-> "link_has_incident",
                   link |-> all_links[1],
                   road_name |-> road_name,
                   incidents |-> incidents,
                   result |-> [kind |-> "value",
                               value |-> link_has_incident(all_links[1], road_name,
                                                           incidents,
                                                           distance_threshold_m)]]
    /\ UNCHANGED <<all_links, route_cache>>

RECURSIVE CheckRainFrom_Strict(_, _, _)
\* a rain check that leaves out a station at exactly the radius
CheckRainFrom_Strict(links, i, rainfall_data) ==
    IF i > Len(links) THEN [kind |-> "value", value |-> FALSE]
    ELSE CHOOSE out \in
           { (IF link_midpoint.kind = "raise" THEN [kind |-> "raise"]
              ELSE IF link_midpoint.kind = "none"
                   THEN CheckRainFrom_Strict(links, i + 1, rainfall_data)
                   ELSE IF \E r \in 1..Len(rainfall_data.readings) :
                              /\ rainfall_data.readings[r].station_id # ""
                              /\ rainfall_data.readings[r].value > 0
                              /\ \E s \in 1..Len(rainfall_data.stations) :
                                    /\ rainfall_data.stations[s].id =
                                          rainfall_data.readings[r].station_id
                                    /\ \A t \in (s + 1)..Len(rainfall_data.stations) :
                                          rainfall_data.stations[t].id #
                                             rainfall_data.stations[s].id
                                    /\ Distance2(link_midpoint.lon2,
                                                 rainfall_data.stations[s].lon)
                                          < 2 * RAINFALL_RADIUS_METERS
                        THEN [kind |-> "value", value |-> TRUE]
                        ELSE CheckRainFrom_Strict(links, i + 1, rainfall_data)) :
             link_midpoint \in {incident_get_link_midpoint(links[i])} } : TRUE

RECURSIVE CheckRainFrom(_, _, _)
\* the loop of check_rain_in_links over the links, from link i on: True at
\* the first link with a rainy station (value > 0) within the radius of its
\* midpoint.  get_link_midpoint of rainfall_service is the code of
\* incident_service.get_link_midpoint; the station of a reading is the last
\* entry of the metadata with its id.
CheckRainFrom(links, i, rainfall_data) ==
    IF i > Len(links) THEN [kind |-> "value", value |-> FALSE]
    ELSE CHOOSE out \in
           { (IF link_midpoint.kind = "raise" THEN [kind |-> "raise"]
              ELSE IF link_midpoint.kind = "none"
                   THEN CheckRainFrom(links, i + 1, rainfall_data)
                   ELSE IF \E r \in 1..Len(rainfall_data.readings) :
                              /\ rainfall_data.readings[r].station_id # ""
                              /\ rainfall_data.readings[r].value > 0
                              /\ \E s \in 1..Len(rainfall_data.stations) :
                                    /\ rainfall_data.stations[s].id =
                                          rainfall_data.readings[r].station_id
                                    /\ \A t \in (s + 1)..Len(rainfall_data.stations) :
                                          rainfall_data.stations[t].id #
                                             rainfall_data.stations[s].id
                                    /\ Distance2(link_midpoint.lon2,
                                                 rainfall_data.stations[s].lon)
                                          <= 2 * RAINFALL_RADIUS_METERS
                        THEN [kind |-> "value", value |-> TRUE]
                        ELSE CheckRainFrom(links, i + 1, rainfall_data)) :
             link_midpoint \in {incident_get_link_midpoint(links[i])} } : TRUE

\* rainfall_service.check_rain_in_links
check_rain_in_links(links, rainfall_data) ==
    IF rainfall_data.readings = <<>> THEN [kind |-> "value", value |-> FALSE]
    ELSE CheckRainFrom(links, 1, rainfall_data)

\* the live rain check of the handlers, for one link
CheckRainInLinks ==
    /\ call = NoCall
    /\ \E rainfall_data \in RainfallFeeds :
          call' = [op |-> "check_rain_in_links",
                   link |-> all_links[1],
                   stations |-> rainfall_data.stations,
                   readings |-> rainfall_data.readings,
                   result |-> check_rain_in_links(<<all_links[1]>>, rainfall_data)]
    /\ UNCHANGED <<all_links, route_cache>>

\* the endpoint test of the neighbour search, for the end of the link and a
\* point lon metres east of it
PointsMatch ==
    /\ call = NoCall
    /\ \E lon \in 0..(2 * ROUTE_BUFFER_METERS) :
          call' = [op |-> "points_match",
                   link |-> all_links[1],
                   lon |-> all_links[1].EndLon.v + lon,
                   result |-> points_match(0, all_links[1].EndLon.v,
                                           0, all_links[1].EndLon.v + lon,
                                           ROUTE_BUFFER_METERS)]
    /\ UNCHANGED <<all_links, route_cache>>

InitProximity ==
    /\ all_links \in ProximityCatalogs
    /\ route_cache = <<>>
    /\ call = NoCall

NextProximity ==
    \/ GetRainfallForLink
    \/ FindNearestStationRainfall
    \/ CheckIncidentsInLinks
    \/ LinkHasIncident
    \/ CheckRainInLinks
    \/ PointsMatch

SpecProximity == InitProximity /\ [][NextProximity]_vars

----------------------------------------------------------------------------
(* Properties of the proximity lookups (specification SpecProximity) *)

\* the positions in a station list at the smallest distance from lon2
NearestStations(stations, lon2) ==
    {i \in 1..Len(stations) :
        \A j \in 1..Len(stations) :
           Distance2(lon2, stations[i].lon) <= Distance2(lon2, stations[j].lon)}

\* C13: for a link with a midpoint and a feed in which every station reports
\* a reading and one station is nearest to the midpoint, the station lookup
\* (live and offline) returns that station's reading when the station is within
\* 50 m of the midpoint and 0 when it is farther, whatever the others report.
C13_NearestStationWithinRadius ==
    /\ call.op \in {"get_rainfall_for_link", "find_nearest_station_rainfall"}
    /\ call.link.StartLon.v + call.link.EndLon.v # 0
    /\ Len(call.readings) = Len(call.stations)
    /\ Cardinality(NearestStations(call.stations,
                                   call.link.StartLon.v + call.link.EndLon.v)) = 1
    => \A i \in NearestStations(call.stations,
                                call.link.StartLon.v + call.link.EndLon.v) :
          call.result =
             IF Distance2(call.link.StartLon.v + call.link.EndLon.v,
                          call.stations[i].lon) <= 2 * RAINFALL_RADIUS_METERS
             THEN call.readings[i].value
             ELSE 0

\* C14: both incident checks report an incident for a link exactly when its
\* known road name occurs in some incident message or some incident point is
\* within the threshold of the link's segment, measured point-to-segment:
\* 100 m offline, 50 m live.
C14_RoadNameThenSegmentDistance ==
    call.op \in {"check_incidents_in_links", "link_has_incident"}
    => /\ call.result.kind = "value"
       /\ call.result.value =
             (\/ /\ call.road_name # <<>>
                 /\ \E i \in 1..Len(call.incidents) :
                       IsSubstring(Lower(call.road_name),
                                   Lower(call.incidents[i].Message))
              \/ \E i \in 1..Len(call.incidents) :
                    point_to_segment_distance(call.incidents[i].Longitude,
                                              call.link.StartLon.v,
                                              call.link.EndLon.v)
                       <= IF call.op = "link_has_incident"
                          THEN distance_threshold_m
                          ELSE RAINFALL_RADIUS_METERS)

----------------------------------------------------------------------------
(* predictor_service.extract_speedband_from_data on single observations *)

\* observations: a band that is missing, not a number, or one of 0..8, with
\* a (minimum speed, maximum speed) pair in km/h
Observations ==
    {Obs(b, p[1], p[2]) :
        b \in {Null, Text} \cup {Num(v) : v \in 0..8},
        p \in {<<0, 0>>, <<0, 9>>, <<5, 14>>, <<10, 19>>, <<15, 25>>, <<20, 29>>,
               <<30, 39>>, <<40, 49>>, <<50, 59>>, <<60, 69>>, <<70, 79>>,
               <<75, 85>>, <<80, 89>>, <<90, 99>>}}

ExtractSpeedband ==
    /\ call = NoCall
    /\ \E speed_data \in Observations :
          call' = [op |-> "extract_speedband_from_data",
                   speed_data |-> speed_data,
                   result |-> extract_speedband_from_data(speed_data)]
    /\ UNCHANGED <<all_links, route_cache>>

\* one call of the function; no catalog and no route are involved
SpecExtract == InitHistory /\ [][ExtractSpeedband]_vars

\* the 10 km/h bucket of the midpoint of two speeds: <10 is 0, ..., >=80 is 8
BucketOfMidpoint(minspeed, maxspeed) ==
    CHOOSE b \in 0..8 :
       /\ b < 8 => minspeed + maxspeed < 2 * 10 * (b + 1)
       /\ b > 0 => minspeed + maxspeed >= 2 * 10 * b

\* C15: every observation yields a band: its band value when present
\* (band 0 included), otherwise the bucket of the midpoint of its speeds; the
\* value is an integer in 0..8.
C15_EveryObservationYieldsBand ==
    call.op = "extract_speedband_from_data"
    => /\ call.result.k = "num"
       /\ call.result.v \in 0..8
       /\ call.result.v =
             IF call.speed_data.speedband.k = "num"
             THEN call.speed_data.speedband.v
             ELSE BucketOfMidpoint(call.speed_data.minspeed, call.speed_data.maxspeed)

\* C15 (amended): an observation yields its band value when present (band 0
\* included); otherwise, when its maximum speed is positive, the bucket of the
\* midpoint of its speeds; otherwise nothing.  Every value yielded is an
\* integer in 0..8.
C15_BandOrBucketOfPositiveSpeed ==
    call.op = "extract_speedband_from_data"
    => /\ call.result =
             IF call.speed_data.speedband.k = "num"
             THEN Num(call.speed_data.speedband.v)
             ELSE IF call.speed_data.maxspeed > 0
                  THEN Num(BucketOfMidpoint(call.speed_data.minspeed,
                                            call.speed_data.maxspeed))
                  ELSE Null
       /\ call.result.k = "num" => call.result.v \in 0..8

C15_Witness ==
    /\ call.op = "extract_speedband_from_data"
    /\ call.speed_data.speedband = Null
    /\ call.speed_data.maxspeed = 0
    /\ call.result = Null

----------------------------------------------------------------------------
(* Properties of the neighbour lists of a route graph (specification Spec) *)

\* the pairs of list positions of a graph's nodes
NodePairs(graph) == (1..Len(graph.ordered_links)) \X (1..Len(graph.ordered_links))

\* C16: for distinct route members A and B of a built graph, B is in A's
\* outbound_link_ids exactly when A's end point is at most buffer_meters from
\* B's start point, and B is in A's inbound_link_ids exactly when B's end
\* point is at most buffer_meters from A's start point; no link lists itself.
C16_NeighboursWithinTolerance ==
    \A graph \in BuiltGraphs : \A p \in NodePairs(graph) :
       LET A == graph.ordered_links[p[1]]
           B == graph.ordered_links[p[2]]
       IN IF p[1] = p[2]
          THEN /\ ~Contains(A.outbound_link_ids, A.LinkID)
               /\ ~Contains(A.inbound_link_ids, A.LinkID)
          ELSE /\ Contains(A.outbound_link_ids, B.LinkID)
                  <=> Abs(A.EndLon.v - B.StartLon.v) <= graph.buffer_meters
               /\ Contains(A.inbound_link_ids, B.LinkID)
                  <=> Abs(B.EndLon.v - A.StartLon.v) <= graph.buffer_meters

\* a graph with a neighbour exactly buffer_meters away and a pair of members
\* farther apart than that
C16_Witness ==
    \E graph \in BuiltGraphs : \E p, q \in NodePairs(graph) :
       /\ p[1] # p[2]
       /\ Abs(graph.ordered_links[p[1]].EndLon.v - graph.ordered_links[p[2]].StartLon.v)
             = graph.buffer_meters
       /\ Contains(graph.ordered_links[p[1]].outbound_link_ids,
                   graph.ordered_links[p[2]].LinkID)
       /\ q[1] # q[2]
       /\ Abs(graph.ordered_links[q[1]].EndLon.v - graph.ordered_links[q[2]].StartLon.v)
             > graph.buffer_meters
       /\ ~Contains(graph.ordered_links[q[1]].outbound_link_ids,
                    graph.ordered_links[q[2]].LinkID)

\* C17: in every built graph, for distinct nodes A and B, B is in A's
\* outbound_link_ids exactly when A is in B's inbound_link_ids.
C17_InboundMirrorsOutbound ==
    \A graph \in BuiltGraphs : \A p \in NodePairs(graph) :
       p[1] # p[2]
       => (Contains(graph.ordered_links[p[1]].outbound_link_ids,
                    graph.ordered_links[p[2]].LinkID)
           <=> Contains(graph.ordered_links[p[2]].inbound_link_ids,
                        graph.ordered_links[p[1]].LinkID))

\* a graph in which A leads to B but B does not lead to A
C17_Witness ==
    \E graph \in BuiltGraphs : \E p \in NodePairs(graph) :
       /\ p[1] # p[2]
       /\ Contains(graph.ordered_links[p[1]].outbound_link_ids,
                   graph.ordered_links[p[2]].LinkID)
       /\ Contains(graph.ordered_links[p[2]].inbound_link_ids,
                   graph.ordered_links[p[1]].LinkID)
       /\ ~Contains(graph.ordered_links[p[2]].outbound_link_ids,
                    graph.ordered_links[p[1]].LinkID)
       /\ ~Contains(graph.ordered_links[p[1]].inbound_link_ids,
                    graph.ordered_links[p[2]].LinkID)

----------------------------------------------------------------------------
(* Properties of get_current_link on lists with broken records              *)
(* (specification SpecRequest)                                              *)

\* C18: get_current_link returns None exactly when no link of the list has
\* valid geometry (the empty list included); a link whose coordinates are
\* absent, null or not numbers is skipped without an exception, and a link is
\* returned whenever some link has valid geometry.
C18_NotFoundIffNoValidGeometry ==
    call.op = "get_current_link"
    => /\ call.result.kind \in {"none", "link"}
       /\ call.result = NoLink
          <=> \A i \in 1..Len(call.links) :
                 \E f \in {"StartLat", "StartLon", "EndLat", "EndLon"} :
                    call.links[i][f].k # "num"
       /\ call.result.kind = "link"
          => \E i \in 1..Len(call.links) :
                /\ call.result.link = call.links[i]
                /\ \A f \in {"StartLat", "StartLon", "EndLat", "EndLon"} :
                      call.links[i][f].k = "num"

\* a link is found behind a record with a null coordinate
C18_Witness ==
    /\ call.op = "get_current_link"
    /\ Len(call.links) > 1
    /\ call.links[1].StartLat = Null
    /\ call.result.kind = "link"

----------------------------------------------------------------------------
(* Properties of route construction seen from the handlers                  *)
(* (specification SpecHandler)                                              *)

\* C19: when route construction runs and no route can be built (fewer than 2
\* usable path points, no catalog link meeting the corridor, or an empty
\* catalog), process_route returns None without raising, the handler answers
\* 404 and nothing is stored in the cache under the route's key.
C19_NotFoundIsAbsentResult ==
    (/\ call.op \in HandlerOps
     /\ call.ran_process_route
     /\ \/ get_route_linestring_from_stops(call.stops).kind = "none"
        \/ all_links = <<>>
        \/ \A i \in 1..Len(all_links) :
              \/ \E f \in {"StartLat", "StartLon", "EndLat", "EndLon"} :
                    all_links[i][f].k # "num"
              \/ ~Intersects(all_links[i],
                             get_route_linestring_from_stops(call.stops).coords,
                             ROUTE_BUFFER_METERS))
    => /\ call.built = "none"
       /\ call.response.status = 404
       /\ CacheKey(call.bus_no, call.direction) \notin DOMAIN route_cache

----------------------------------------------------------------------------
(* The next links of a current node, as the handlers and as                 *)
(* get_links_for_analysis collect them                                      *)

\* both loops run for a node of a cached route and a lookahead count: the
\* handlers' loop, and the loop of get_links_for_analysis, which appends the
\* next links behind the current link
CollectNextLinks ==
    /\ call = NoCall
    /\ \E k \in DOMAIN route_cache, num_future_links \in Lookaheads :
         \E o \in 1..Len(route_cache[k].ordered_links) :
            call' = [op |-> "next_links",
                     current_link |-> route_cache[k].ordered_links[o],
                     route_data |-> route_cache[k],
                     num_future_links |-> num_future_links,
                     handler |-> NextLinksFrom(<<>>, 1, num_future_links,
                                               route_cache[k].ordered_links[o].order,
                                               route_cache[k].ordered_links),
                     analysis |-> Tail(WindowBase(route_cache[k].ordered_links[o],
                                                  route_cache[k],
                                                  num_future_links).list)]
    /\ UNCHANGED <<all_links, route_cache>>

SpecLookahead == InitRequest /\ [][CollectNextLinks]_vars

\* C20: for a current node at order o of a route of n links and a lookahead
\* K, the next links are the nodes at orders o+1 .. min(o+K, n-1) in route
\* order, never more than K and fewer when the route ends first; the handlers
\* and get_links_for_analysis collect the same ones.
C20_NextLinksFollowInRouteOrder ==
    call.op = "next_links"
    => /\ call.handler = NextNodes(call.current_link, call.route_data,
                                   call.num_future_links)
       /\ call.analysis = call.handler
       /\ Len(call.handler) <= call.num_future_links
       /\ \A i \in 1..Len(call.handler) :
             call.handler[i].order = call.current_link.order + i

\* the route ends before the lookahead is used up, after at least one link
C20_Witness ==
    /\ call.op = "next_links"
    /\ Len(call.handler) >= 1
    /\ Len(call.handler) < call.num_future_links
    /\ call.analysis = call.handler

----------------------------------------------------------------------------
(* predictor_service.predict_speed and the calls the handlers make of it.   *)
(* What reaches the trained model is recorded; its answer is not modelled.  *)
(* Speeds named ...100 are in hundredths of a km/h.                         *)

\* a predict_speed that always predicts for the current link
predict_speed_target_link_AlwaysCurrent(current_link, next_links) == current_link

\* target_link of predict_speed: the first next link, or the current link
predict_speed_target_link(current_link, next_links) ==
    IF next_links = <<>> THEN current_link ELSE next_links[1]

\* s[-n:]
LastN(s, n) == SubSeq(s, Max2(1, Len(s) - n + 1), Len(s))

\* _predict_speed_dummy: the mean speed observed on the first next link (or
\* on the current link), reduced by 20% in rain and by 40% at an incident
predict_speed_dummy100(current_link, next_links, speed_bands, has_rain, has_incident) ==
    LET link_id == IF next_links = <<>> THEN current_link.LinkID
                   ELSE next_links[1].LinkID
        sum == IF link_id \in DOMAIN speed_bands /\ speed_bands[link_id].maxspeed > 0
               THEN speed_bands[link_id].minspeed + speed_bands[link_id].maxspeed
               ELSE 0
    IN IF next_links = <<>> THEN 50 * sum
       ELSE (sum * (IF has_rain THEN 8 ELSE 10) * (IF has_incident THEN 6 ELSE 10)) \div 2

\* a rainfall history that is trimmed but never padded
rainfall_history_for_NoPadding(current_link, next_links, rainfall_data, has_rain, n) ==
    IF rainfall_data # Null
    THEN LET links == LastN(<<current_link>> \o next_links, 5)
             rainfall_values == [i \in 1..Len(links) |->
                                   get_rainfall_for_link(links[i], rainfall_data, 50)]
         IN SubSeq(rainfall_values, 1, Min2(n, Len(rainfall_values)))
    ELSE [i \in 1..n |-> IF has_rain THEN 1 ELSE 0]

\* rainfall_history of predict_speed for a speed-band history of length n;
\* rainfall_data is Null when it is None or an empty dict
rainfall_history_for(current_link, next_links, rainfall_data, has_rain, n) ==
    IF rainfall_data # Null
    THEN LET links == LastN(<<current_link>> \o next_links, 5)
             rainfall_values == [i \in 1..Len(links) |->
                                   get_rainfall_for_link(links[i], rainfall_data, 50)]
             padded == rainfall_values \o
                       [i \in 1..(n - Len(rainfall_values)) |->
                          IF rainfall_values # <<>>
                          THEN rainfall_values[Len(rainfall_values)] ELSE 0]
         IN SubSeq(padded, 1, n)
    ELSE [i \in 1..n |-> IF has_rain THEN 1 ELSE 0]

\* predict_speed up to the call of predictor.predict: the arguments the
\* model is called with, and the fallback used when the model is not
\* available or raises
predict_speed(current_link, next_links, speed_bands, has_rain, has_incident, rainfall_data, model_available) ==
    IF ~model_available
    THEN [kind |-> "dummy",
          speed100 |-> predict_speed_dummy100(current_link, next_links, speed_bands,
                                              has_rain, has_incident)]
    ELSE IF predict_speed_target_link(current_link, next_links).LinkID = ""
    THEN [kind |-> "zero", speed100 |-> 0]
    ELSE CHOOSE out \in
           { [kind |-> "model",
              link_id |-> predict_speed_target_link(current_link, next_links).LinkID,
              target_link |-> predict_speed_target_link(current_link, next_links),
              speedband_history |-> speedband_history,
              rainfall_history |-> rainfall_history_for(current_link, next_links,
                                                        rainfall_data, has_rain,
                                                        Len(speedband_history)),
              incident_history |-> [i \in 1..Len(speedband_history) |-> has_incident],
              fallback100 |-> predict_speed_dummy100(current_link, next_links,
                                                     speed_bands, has_rain,
                                                     has_incident)] :
             speedband_history \in
               {build_speedband_history(
                    predict_speed_target_link(current_link, next_links),
                    current_link, next_links, speed_bands, MIN_HISTORY_LENGTH)} } : TRUE

\* inputs: a chain 0->10->20 with the reverse carriageway 10->0
PredictCatalogs ==
    { [i \in 1..NumLinks |-> [LinkID |-> IdOf(i)] @@ f[i]] :
        f \in [1..NumLinks -> {Shape(0, 10), Shape(10, 20), Shape(10, 0)}] }

\* the speed-band feed: link i, when observed, is in band i + 2
PredictFeeds ==
    { [id \in D |-> CHOOSE ob \in {Obs(Num(i + 2), 10 * (i + 2), 10 * (i + 2) + 9) :
                                     i \in 1..NumLinks} :
                       id = IdOf(ob.speedband.v - 2)] :
        D \in SUBSET {IdOf(i) : i \in 1..NumLinks} }

\* has_rain, has_incident and the rainfall response they come with
PredictWeathers ==
    { [has_rain |-> FALSE, has_incident |-> FALSE, rainfall_data |-> Null],
      [has_rain |-> TRUE, has_incident |-> FALSE,
       rainfall_data |-> [stations |-> <<[id |-> "S1", lon |-> 15]>>,
                          readings |-> <<[station_id |-> "S1", value |-> 5]>>]],
      [has_rain |-> FALSE, has_incident |-> TRUE,
       rainfall_data |-> [stations |-> <<>>, readings |-> <<>>]] }

\* realtime_stats from the located bus to its call of predict_speed
PredictInRealtimeStats ==
    /\ call = NoCall
    /\ \E k \in DOMAIN route_cache, lon \in HandlerLons :
         \E loc \in {Locate([result |-> route_cache[k]], 0, lon)} :
            /\ loc.status = 200
            /\ \E feed \in PredictFeeds, w \in PredictWeathers, model_available \in BOOLEAN :
                 LET fetched == fetch_speed_bands_for_links(
                                    IdsOf(loc.links_for_analysis), feed)
                     target_link == IF loc.next_links # <<>> THEN loc.next_links[1]
                                    ELSE loc.current_link
                     model_link_ids ==
                         (Range(target_link.inbound_link_ids)
                          \cup Range(target_link.outbound_link_ids)
                          \cup {loc.current_link.LinkID, target_link.LinkID}
                          \cup {loc.next_links[i].LinkID : i \in 1..Len(loc.next_links)})
                         \ {""}
                     speed_bands == IF model_link_ids # {}
                                    THEN fetch_speed_bands_for_links(model_link_ids, fetched)
                                    ELSE fetched
                 IN call' = [op |-> "realtime_stats",
                             current_link |-> loc.current_link,
                             next_links |-> loc.next_links,
                             links_for_analysis |-> loc.links_for_analysis,
                             target_link |-> target_link,
                             model_link_ids |-> model_link_ids,
                             fetched |-> fetched,
                             speed_bands |-> speed_bands,
                             weather |-> w,
                             model_available |-> model_available,
                             predictions |->
                                 <<predict_speed(loc.current_link, loc.next_links,
                                                 speed_bands, w.has_rain, w.has_incident,
                                                 w.rainfall_data, model_available)>>]
    /\ UNCHANGED <<all_links, route_cache>>

\* coasting_recommendation from the located bus to its call of predict_speed
PredictInCoastingRecommendation ==
    /\ call = NoCall
    /\ \E k \in DOMAIN route_cache, lon \in HandlerLons :
         \E loc \in {Locate([result |-> route_cache[k]], 0, lon)} :
            /\ loc.status = 200
            /\ \E feed \in PredictFeeds, w \in PredictWeathers, model_available \in BOOLEAN :
                 LET speed_bands == fetch_speed_bands_for_links(
                                        IdsOf(loc.links_for_analysis), feed)
                 IN call' = [op |-> "coasting_recommendation",
                             current_link |-> loc.current_link,
                             next_links |-> loc.next_links,
                             links_for_analysis |-> loc.links_for_analysis,
                             fetched |-> speed_bands,
                             speed_bands |-> speed_bands,
                             weather |-> w,
                             model_available |-> model_available,
                             predictions |->
                                 <<predict_speed(loc.current_link, loc.next_links,
                                                 speed_bands, w.has_rain, w.has_incident,
                                                 w.rainfall_data, model_available)>>]
    /\ UNCHANGED <<all_links, route_cache>>

\* map_data from the located bus to its calls of predict_speed, one for each
\* next link, with the link before it as the current link
PredictInMapData ==
    /\ call = NoCall
    /\ \E k \in DOMAIN route_cache, lon \in HandlerLons :
         \E loc \in {Locate([result |-> route_cache[k]], 0, lon)} :
            /\ loc.status = 200
            /\ \E feed \in PredictFeeds, w \in PredictWeathers, model_available \in BOOLEAN :
                 LET speed_bands == fetch_speed_bands_for_links(
                                        IdsOf(loc.links_for_analysis)
                                        \cup IdsOf(loc.route_data.ordered_links), feed)
                 IN call' = [op |-> "map_data",
                             current_link |-> loc.current_link,
                             next_links |-> loc.next_links,
                             links_for_analysis |-> loc.links_for_analysis,
                             fetched |-> speed_bands,
                             speed_bands |-> speed_bands,
                             weather |-> w,
                             model_available |-> model_available,
                             predictions |->
                                 [i \in 1..Len(loc.next_links) |->
                                    predict_speed(IF i = 1 THEN loc.current_link
                                                  ELSE loc.next_links[i - 1],
                                                  <<loc.next_links[i]>>,
                                                  speed_bands, w.has_rain, w.has_incident,
                                                  w.rainfall_data, model_available)]]
    /\ UNCHANGED <<all_links, route_cache>>

\* One request served from a cache that already holds the route of one key
InitPredict ==
    /\ all_links \in PredictCatalogs
    /\ \E service_no \in ServiceNos, direction \in Directions, stops \in Upstreams :
         \E route_data \in {process_route(service_no, direction, stops,
                                           all_links, ROUTE_BUFFER_METERS)} :
            /\ route_data.kind = "graph"
            /\ route_cache = RouteCache_set(<<>>, service_no, direction, route_data)
    /\ call = NoCall

NextPredict ==
    \/ PredictInRealtimeStats
    \/ PredictInCoastingRecommendation
    \/ PredictInMapData

SpecPredict == InitPredict /\ [][NextPredict]_vars

----------------------------------------------------------------------------
(* Properties of the prediction stage (specification SpecPredict) *)

\* C21 as claimed: in every request the target link is the first next link
\* when there is one and the current link otherwise, and every use in the
\* request (the model_link_ids filter of realtime_stats, the link id passed
\* to the predictor, the neighbours read by build_speedband_history) is of
\* that target.
C21_OneTargetInEveryRequest ==
    call # NoCall
    => LET target == TargetOf(call.current_link, call.next_links)
       IN /\ call.op = "realtime_stats" => call.target_link = target
          /\ \A i \in 1..Len(call.predictions) :
                call.predictions[i].kind = "model"
                => /\ call.predictions[i].link_id = target.LinkID
                   /\ call.predictions[i].target_link = target

\* C21 amended: realtime_stats and coasting_recommendation use the first next
\* link (or the current link) as the one target of the request, in the
\* filter, for the predictor and for the history; map_data makes one
\* prediction for each next link, and the i-th one has next link i as target.
C21_TargetOfEachPrediction ==
    call # NoCall
    => LET target == TargetOf(call.current_link, call.next_links)
       IN /\ call.op = "realtime_stats"
             => /\ call.target_link = target
                /\ call.model_link_ids =
                      (Range(target.inbound_link_ids) \cup Range(target.outbound_link_ids)
                       \cup {call.current_link.LinkID, target.LinkID}
                       \cup IdsOf(call.next_links)) \ {""}
          /\ \A i \in 1..Len(call.predictions) :
                call.predictions[i].kind = "model"
                => LET t == IF call.op = "map_data" THEN call.next_links[i] ELSE target
                   IN /\ call.predictions[i].link_id = t.LinkID
                      /\ call.predictions[i].target_link = t

\* map_data reaches the model for its second next link, a link other than the
\* first next link
C21_Witness ==
    /\ call # NoCall
    /\ call.op = "map_data"
    /\ Len(call.predictions) >= 2
    /\ call.predictions[2].kind = "model"
    /\ call.predictions[2].link_id = call.next_links[2].LinkID
    /\ call.next_links[2].LinkID # call.next_links[1].LinkID

----------------------------------------------------------------------------
(* Boundary policy of the radius and tolerance tests (SpecProximity) *)

\* the rainy stations of the recorded call within the radius of the link's
\* midpoint, the radius included
RainyStationsWithin(radius_meters) ==
    {r \in 1..Len(call.readings) :
        /\ call.readings[r].value > 0
        /\ \E s \in 1..Len(call.stations) :
              /\ call.stations[s].id = call.readings[r].station_id
              /\ Abs(call.link.StartLon.v + call.link.EndLon.v - 2 * call.stations[s].lon)
                    <= 2 * radius_meters}

\* C22: every radius or tolerance test is inclusive.  check_rain_in_links and
\* get_rainfall_for_link find rain exactly when a rainy station is at a
\* distance <= RAINFALL_RADIUS_METERS of the midpoint, check_incidents_in_links
\* finds an incident exactly when one is at a distance <= the radius, and
\* points_match holds exactly at a distance <= buffer_meters.  (A link whose
\* coordinates are all zero has no midpoint for get_rainfall_for_link.)
C22_ThresholdsAreInclusive ==
    /\ call.op = "check_rain_in_links"
       => call.result = [kind |-> "value",
                         value |-> RainyStationsWithin(RAINFALL_RADIUS_METERS) # {}]
    /\ (call.op = "get_rainfall_for_link"
        /\ predictor_get_link_midpoint(call.link).kind = "point")
       => (call.result > 0 <=> RainyStationsWithin(RAINFALL_RADIUS_METERS) # {})
    /\ call.op = "check_incidents_in_links"
       => call.result =
             [kind |-> "value",
              value |-> \E j \in 1..Len(call.incidents) :
                           Abs(call.link.StartLon.v + call.link.EndLon.v
                               - 2 * call.incidents[j].Longitude)
                              <= 2 * RAINFALL_RADIUS_METERS]
    /\ call.op = "points_match"
       => (call.result <=> Abs(call.lon - call.link.EndLon.v) <= ROUTE_BUFFER_METERS)

\* the only rainy station is exactly RAINFALL_RADIUS_METERS from the midpoint
\* and check_rain_in_links reports rain
C22_Witness ==
    /\ call.op = "check_rain_in_links"
    /\ call.result = [kind |-> "value", value |-> TRUE]
    /\ \A s \in 1..Len(call.stations) :
          Abs(call.link.StartLon.v + call.link.EndLon.v - 2 * call.stations[s].lon)
             >= 2 * RAINFALL_RADIUS_METERS

----------------------------------------------------------------------------
(* Further properties of the recommendation (specification SpecRecommend) *)

\* C23: whenever the current speed is fast (>= 50), the predicted speed is
\* strictly between 30 and 50 and current minus predicted exceeds 15, the
\* action is speed_up with colour cue orange; and so it is when the current
\* speed is slow (<= 30) and the predicted speed is fast (>= 50).
C23_SlowdownAheadOrSlowNowSpeedsUp ==
    call.op = "generate_recommendation"
    => /\ (/\ call.result.current_speed2 >= 2 * 50
           /\ call.predicted_speed > 30 /\ call.predicted_speed < 50
           /\ call.result.current_speed2 - 2 * call.predicted_speed > 2 * 15)
          => (call.result.action = "speed_up" /\ call.result.color_cue = "orange")
       /\ (/\ call.result.current_speed2 <= 2 * 30
           /\ call.predicted_speed >= 50)
          => (call.result.action = "speed_up" /\ call.result.color_cue = "orange")

\* a fast current link (65 km/h) with 45 km/h predicted: speed up
C23_Witness ==
    /\ call.op = "generate_recommendation"
    /\ call.result.current_speed2 = 130
    /\ call.predicted_speed = 45
    /\ call.result.action = "speed_up"
    /\ call.result.urgency = "medium"

C25_CurrentSpeedFromSpeedsThenBand ==
    call.op = "generate_recommendation"
    => LET id == call.current_link.LinkID
       IN /\ id \notin DOMAIN call.speed_bands => call.result.current_speed2 = 0
          /\ (id \in DOMAIN call.speed_bands /\ call.speed_bands[id].maxspeed > 0)
             => call.result.current_speed2 =
                   call.speed_bands[id].minspeed + call.speed_bands[id].maxspeed
          /\ (/\ id \in DOMAIN call.speed_bands
              /\ call.speed_bands[id].maxspeed <= 0
              /\ call.speed_bands[id].speedband.k = "num")
             => call.result.current_speed2 =
                   2 * (10 * call.speed_bands[id].speedband.v + 5)

\* an observation without speeds whose band 2 gives 25 km/h
C25_Witness ==
    /\ call.op = "generate_recommendation"
    /\ "L1" \in DOMAIN call.speed_bands
    /\ call.speed_bands["L1"].maxspeed = 0
    /\ call.speed_bands["L1"].speedband = Num(2)
    /\ call.result.current_speed2 = 50

\* C26: at the prediction stage of realtime_stats, every id that
\* build_speedband_history may read (the target's inbound and outbound
\* neighbours, the current link, the target, the next links) is in the
\* analysis window and in model_link_ids, and predict_speed is called with
\* the same arguments, and falls back on the same speed, as it would be with
\* the unfiltered observations that coasting_recommendation passes.
C26_FilterKeepsWhatHistoryReads ==
    /\ call # NoCall
       => Range(CandidateIds(TargetOf(call.current_link, call.next_links),
                             call.current_link, call.next_links))
             \subseteq IdsOf(call.links_for_analysis)
    /\ (call # NoCall /\ call.op = "realtime_stats")
       => /\ Range(CandidateIds(call.target_link, call.current_link, call.next_links))
                \subseteq call.model_link_ids
          /\ call.predictions =
                <<predict_speed(call.current_link, call.next_links, call.fetched,
                                call.weather.has_rain, call.weather.has_incident,
                                call.weather.rainfall_data, call.model_available)>>
    /\ (call # NoCall /\ call.op = "coasting_recommendation")
       => call.speed_bands = call.fetched

\* the filter of realtime_stats drops an observation that was fetched, and
\* the history passed to the model is built from observations
C26_Witness ==
    /\ call # NoCall
    /\ call.op = "realtime_stats"
    /\ DOMAIN call.speed_bands # DOMAIN call.fetched
    /\ call.predictions[1].kind = "model"
    /\ \E i, j \in 1..MIN_HISTORY_LENGTH :
          call.predictions[1].speedband_history[i]
             # call.predictions[1].speedband_history[j]

----------------------------------------------------------------------------
(* Shape of the route graph (specification Spec) *)

\* C27: in every graph built by process_route from a catalog with unique link
\* ids, link_index[id] is the node of that id in ordered_links and every node
\* is indexed; every id in a node's inbound_link_ids, outbound_link_ids or
\* next_link_ids is a key of the link index; next_link_ids holds exactly the
\* id of the node at order + 1, and is empty for the last node.
C27_IndexAndListDescribeSameNodes ==
    \A graph \in BuiltGraphs :
       /\ DOMAIN graph.link_index = IdsOf(graph.ordered_links)
       /\ \A i \in 1..Len(graph.ordered_links) :
             LET node == graph.ordered_links[i]
             IN /\ graph.link_index[node.LinkID] = node
                /\ node.order = i - 1
                /\ Range(node.inbound_link_ids) \cup Range(node.outbound_link_ids)
                      \cup Range(node.next_link_ids) \subseteq DOMAIN graph.link_index
                /\ node.next_link_ids =
                      IF i < Len(graph.ordered_links)
                      THEN <<graph.ordered_links[i + 1].LinkID>> ELSE <<>>

\* a built graph of three nodes with a neighbour behind and one ahead
C27_Witness ==
    \E graph \in BuiltGraphs :
       /\ Len(graph.ordered_links) = 3
       /\ graph.ordered_links[1].next_link_ids = <<graph.ordered_links[2].LinkID>>
       /\ graph.ordered_links[3].next_link_ids = <<>>
       /\ graph.ordered_links[2].inbound_link_ids # <<>>
       /\ graph.ordered_links[2].outbound_link_ids # <<>>

\* C28: in every call of predict_speed that reaches the model, the rainfall
\* history and the incident history passed to the predictor have the length
\* of the speed-band history, with or without rainfall data and whatever the
\* number of next links.
C28_HistoriesHaveOneLength ==
    call # NoCall
    => \A i \in 1..Len(call.predictions) :
          call.predictions[i].kind = "model"
          => /\ Len(call.predictions[i].rainfall_history)
                   = Len(call.predictions[i].speedband_history)
             /\ Len(call.predictions[i].incident_history)
                   = Len(call.predictions[i].speedband_history)
             /\ Len(call.predictions[i].speedband_history) = MIN_HISTORY_LENGTH

\* the model is reached with rainfall data and without any next link, so the
\* one rainfall value read is repeated to the length of the history
C28_Witness ==
    /\ call # NoCall
    /\ call.op = "realtime_stats"
    /\ call.next_links = <<>>
    /\ call.weather.rainfall_data # Null
    /\ call.predictions[1].kind = "model"
    /\ Len(call.predictions[1].rainfall_history) = MIN_HISTORY_LENGTH
    /\ call.predictions[1].rainfall_history[1] > 0

----------------------------------------------------------------------------
(* Speed fields of the responses (specification SpecHandler) *)

\* C29: in the coasting_recommendation and map_data responses, every link
\* (current link, next link, inbound or outbound link, route-geometry link)
\* for which an observation was fetched carries that observation's band,
\* minimum speed and maximum speed as SpeedBand, MinimumSpeed, MaximumSpeed.
C29_ResponseCarriesObservation ==
    (/\ call.op \in {"get_coasting_recommendation", "get_map_data"}
     /\ call.response.status = 200)
    => LET body == call.response.body
           speed_bands == IF call.op = "get_map_data" THEN body.speed_bands
                          ELSE call.locals.speed_bands
           links == {body.current_link}
                    \cup Range(body.inbound_links) \cup Range(body.outbound_links)
                    \cup (IF call.op = "get_map_data"
                          THEN Range(body.next_links) \cup Range(body.route_geometry)
                          ELSE IF body.next_link = Null THEN {} ELSE {body.next_link})
       IN \A link \in links :
             link.LinkID \in DOMAIN speed_bands
             => /\ "SpeedBand" \in DOMAIN link
                /\ link.SpeedBand = speed_bands[link.LinkID].speedband
                /\ link.MinimumSpeed # Null
                /\ link.MinimumSpeed = speed_bands[link.LinkID].minspeed
                /\ link.MaximumSpeed # Null
                /\ link.MaximumSpeed = speed_bands[link.LinkID].maxspeed

----------------------------------------------------------------------------
(* correlated_data/speedband_model.SpeedbandPredictor.  A history argument  *)
(* is List(<<...>>), or NoList where the caller leaves it out (None).       *)
(* The means and standard deviations of the windows are real-valued and are *)
(* left out; they are computed from the same windows as the minima and      *)
(* maxima below.  The trained model is a file loaded at run time: its       *)
(* output is an input of predict here.                                      *)

List(s) == [k |-> "list", v |-> s]
NoList == [k |-> "none", v |-> <<>>]

\* s[-i]
FromEnd(s, i) == s[Len(s) + 1 - i]

\* list(reversed(s))
Reversed(s) == [i \in 1..Len(s) |-> s[Len(s) + 1 - i]]

\* sum(1 for i in range(1, min(window, n)) if h[-i] != h[-i-1]), 0 if n < window
speedband_changes(h, window) ==
    IF Len(h) >= window
    THEN Cardinality({i \in 1..(Min2(window, Len(h)) - 1) :
                         FromEnd(h, i) # FromEnd(h, i + 1)})
    ELSE 0

\* h[-window:] if n >= window else h
rolling_window(h, window) == IF Len(h) >= window THEN LastN(h, window) ELSE h

\* _create_features_from_history: the three histories are reversed first,
\* and every feature is then read from the end of the reversed lists
create_features_from_history(speedband_history, rainfall_history, incident_history) ==
    LET sb == Reversed(speedband_history)
        rf == Reversed(rainfall_history)
        ih == Reversed(incident_history)
        n == Len(sb)
        lag1 == IF n >= 1 THEN FromEnd(sb, 1) ELSE 3
        lag2 == IF n >= 2 THEN FromEnd(sb, 2) ELSE lag1
        lag3 == IF n >= 3 THEN FromEnd(sb, 3) ELSE lag2
        lag5 == IF n >= 5 THEN FromEnd(sb, 5) ELSE lag3
        lo(w) == IF n = 0 THEN 3
                 ELSE CHOOSE x \in Range(rolling_window(sb, w)) :
                         \A y \in Range(rolling_window(sb, w)) : x <= y
        hi(w) == IF n = 0 THEN 3
                 ELSE CHOOSE x \in Range(rolling_window(sb, w)) :
                         \A y \in Range(rolling_window(sb, w)) : x >= y
    IN [speedband_lag1 |-> lag1,
        speedband_lag2 |-> lag2,
        speedband_lag3 |-> lag3,
        speedband_lag5 |-> lag5,
        speedband_rolling_min_3 |-> lo(3),
        speedband_rolling_max_3 |-> hi(3),
        speedband_rolling_min_5 |-> lo(5),
        speedband_rolling_max_5 |-> hi(5),
        speedband_rolling_min_10 |-> lo(10),
        speedband_rolling_max_10 |-> hi(10),
        speedband_changes_3 |-> speedband_changes(sb, 3),
        speedband_changes_5 |-> speedband_changes(sb, 5),
        speedband_diff |-> IF n >= 2 THEN FromEnd(sb, 1) - FromEnd(sb, 2) ELSE 0,
        rainfall_mm |-> IF rf # <<>> THEN FromEnd(rf, 1) ELSE 0,
        has_incident |-> IF ih # <<>> THEN (IF FromEnd(ih, 1) THEN 1 ELSE 0) ELSE 0]

\* SpeedbandPredictor.predict: a history left out is a list of 0.0 or of
\* False as long as the speed-band history; model_output is what the trained
\* model returns for the features, clipped to 0..8
predict(speedband_history, rainfall_history, incident_history, model_output) ==
    LET n == Len(speedband_history.v)
        rainfall == IF rainfall_history = NoList THEN [i \in 1..n |-> 0]
                    ELSE rainfall_history.v
        incident == IF incident_history = NoList THEN [i \in 1..n |-> FALSE]
                    ELSE incident_history.v
    IN [features |-> create_features_from_history(speedband_history.v, rainfall, incident),
        prediction |-> Max2(0, Min2(8, model_output))]

\* one call of predict: histories of up to MIN_HISTORY_LENGTH values, which is
\* the length predict_speed passes, with the most recent value last
PredictorPredict ==
    /\ call = NoCall
    /\ \E n \in 0..MIN_HISTORY_LENGTH :
       \E sb \in [1..n -> {2, 5}],
          rf \in {List(r) : r \in [1..n -> {0, 4}]} \cup {NoList},
          ih \in {List(r) : r \in [1..n -> BOOLEAN]} \cup {NoList},
          model_output \in {-1, 4, 9} :
            call' = [op |-> "predict",
                     speedband_history |-> sb,
                     rainfall_history |-> rf,
                     incident_history |-> ih,
                     result |-> predict(List(sb), rf, ih, model_output)]
    /\ UNCHANGED <<all_links, route_cache>>

SpecFeatures == InitHistory /\ [][PredictorPredict]_vars

\* C30: for histories passed to predict with the most recent value last,
\* speedband_lag1 is the last speed band, speedband_lag2 the one before it,
\* speedband_lag3 the third from the end, speedband_diff the last minus the
\* one before it, and rainfall_mm and has_incident are the last elements of
\* the rainfall and incident histories.
C30_FeaturesReadMostRecentValues ==
    call.op = "predict"
    => LET h == call.speedband_history
           n == Len(h)
           f == call.result.features
       IN /\ n >= 1 => f.speedband_lag1 = h[n]
          /\ n >= 2 => /\ f.speedband_lag2 = h[n - 1]
                       /\ f.speedband_diff = h[n] - h[n - 1]
          /\ n >= 3 => f.speedband_lag3 = h[n - 2]
          /\ (n >= 1 /\ call.rainfall_history # NoList)
             => f.rainfall_mm = call.rainfall_history.v[n]
          /\ (n >= 1 /\ call.incident_history # NoList)
             => f.has_incident = (IF call.incident_history.v[n] THEN 1 ELSE 0)

====
